---- MODULE Spec2Model ----
(***************************************************************************)
(* State-machine model of daz-web-extract's four-tier extraction pipeline  *)
(* (extract.py) over the result record (result.py) and the tier fetchers   *)
(* (fetch_http.py, fetch_trafilatura.py, fetch_playwright.py).             *)
(*                                                                         *)
(* Text that the code inspects (bodies, content types) is a sequence of    *)
(* one-character strings; text that the code only builds (error messages,  *)
(* tags) is a string.  None is the empty set and a present value x is the  *)
(* singleton {x}.  The monotonic clock counts ticks, TicksPerMs to the     *)
(* millisecond, so that int((t1 - t0) * 1000) truncates.                   *)
(***************************************************************************)
EXTENDS Integers, Sequences, FiniteSets, TLC

\* ------------------------------------------------------------------ bounds
\* clock resolution: ticks per millisecond
TicksPerMs == 2
\* longest duration of one tier attempt, in ticks
MaxDur == 3

\* ------------------------------------------------------- program constants
\* len(body) < 100 in the three tier modules
HttpMinBody == 100
TrafMinBody == 100
PwMinBody == 100
\* MIN_BODY_LENGTH of content.py
MIN_BODY_LENGTH == 100
\* response.status_code >= 400
HttpErrorStatus == 400
\* SKIP_TO_TIER3_CODES = set(range(400, 600)) - {403, 429}
SkipLo == 400
SkipHi == 600
Forbidden == 403
TooManyRequests == 429

\* ------------------------------------------------------------------ options
None == {}
Some(x) == {x}
Get(o) == CHOOSE x \in o : TRUE

\* --------------------------------------------------------------------- text
UpperToLower ==
    [c \in {"A","B","C","D","E","F","G","H","I","J","K","L","M","N","O","P","Q",
            "R","S","T","U","V","W","X","Y","Z"} |->
       CASE c = "A" -> "a" [] c = "B" -> "b" [] c = "C" -> "c" [] c = "D" -> "d"
         [] c = "E" -> "e" [] c = "F" -> "f" [] c = "G" -> "g" [] c = "H" -> "h"
         [] c = "I" -> "i" [] c = "J" -> "j" [] c = "K" -> "k" [] c = "L" -> "l"
         [] c = "M" -> "m" [] c = "N" -> "n" [] c = "O" -> "o" [] c = "P" -> "p"
         [] c = "Q" -> "q" [] c = "R" -> "r" [] c = "S" -> "s" [] c = "T" -> "t"
         [] c = "U" -> "u" [] c = "V" -> "v" [] c = "W" -> "w" [] c = "X" -> "x"
         [] c = "Y" -> "y" [] c = "Z" -> "z"]

\* str.lower()
lower(s) ==
    [i \in 1..Len(s) |-> IF s[i] \in DOMAIN UpperToLower THEN UpperToLower[s[i]] ELSE s[i]]

\* the Python test `sub in s` on strings
Contains(s, sub) ==
    \E i \in 1..(Len(s) - Len(sub) + 1) : SubSeq(s, i, i + Len(sub) - 1) = sub

\* the text of a character sequence, for interpolation into a message
RECURSIVE Str(_)
Str(s) == IF s = <<>> THEN "" ELSE Head(s) \o Str(Tail(s))

\* n filler characters
Filler(n) == [i \in 1..n |-> "x"]

_JS_REQUIRED_PHRASES ==
    << <<"r","e","q","u","i","r","e","s"," ","j","a","v","a","s","c","r","i","p","t">>,
       <<"e","n","a","b","l","e"," ","j","a","v","a","s","c","r","i","p","t">>,
       <<"j","a","v","a","s","c","r","i","p","t"," ","i","s"," ","r","e","q","u","i","r","e","d">>,
       <<"j","a","v","a","s","c","r","i","p","t"," ","i","s"," ","d","i","s","a","b","l","e","d">>,
       <<"j","a","v","a","s","c","r","i","p","t"," ","m","u","s","t"," ","b","e"," ","e","n","a","b","l","e","d">>,
       <<"y","o","u"," ","n","e","e","d"," ","t","o"," ","e","n","a","b","l","e"," ","j","a","v","a","s","c","r","i","p","t">>,
       <<"p","l","e","a","s","e"," ","e","n","a","b","l","e"," ","j","a","v","a","s","c","r","i","p","t">>,
       <<"t","h","i","s"," ","s","i","t","e"," ","r","e","q","u","i","r","e","s"," ","j","a","v","a","s","c","r","i","p","t">>,
       <<"t","h","i","s"," ","p","a","g","e"," ","r","e","q","u","i","r","e","s"," ","j","a","v","a","s","c","r","i","p","t">>,
       <<"t","h","i","s"," ","a","p","p","l","i","c","a","t","i","o","n"," ","r","e","q","u","i","r","e","s"," ","j","a","v","a","s","c","r","i","p","t">>,
       <<"b","r","o","w","s","e","r"," ","d","o","e","s"," ","n","o","t"," ","s","u","p","p","o","r","t"," ","j","a","v","a","s","c","r","i","p","t">>,
       <<"t","u","r","n"," ","o","n"," ","j","a","v","a","s","c","r","i","p","t">>,
       <<"a","c","t","i","v","a","t","e"," ","j","a","v","a","s","c","r","i","p","t">> >>

JsNoticeText ==
    <<"P","l","e","a","s","e"," ","E","n","a","b","l","e"," ","J","a","v","a","S","c","r","i","p","t"," ","t","o"," ","v","i","e","w"," ","t","h","i","s"," ","p","a","g","e","."," ">>

MentionText ==
    <<"J","a","v","a","S","c","r","i","p","t"," ","t","u","t","o","r","i","a","l"," ","f","o","r"," ","e","v","e","r","y","o","n","e","."," ">>

CtHtml ==
    <<"t","e","x","t","/","h","t","m","l",";"," ","c","h","a","r","s","e","t","=","u","t","f","-","8">>

CtHtmlUpper ==
    <<"T","E","X","T","/","H","T","M","L">>

CtJson ==
    <<"a","p","p","l","i","c","a","t","i","o","n","/","j","s","o","n">>

CtMissing == <<>>

\* ----------------------------------------------------------------- result.py
\* ExtractionResult(success, url, title, body, error, fetch_method,
\*                  status_code, content_length, elapsed_ms)
make_success(u, title, body, fetch_method, status_code, elapsed_ms) ==
    [success |-> TRUE, url |-> u, title |-> title, body |-> Some(body),
     error |-> None, fetch_method |-> Some(fetch_method),
     status_code |-> status_code, content_length |-> Len(body),
     elapsed_ms |-> elapsed_ms]

\* slip: a failure carries an empty body instead of none
make_failure_empty_body(u, error, fetch_method, status_code, elapsed_ms) ==
    [success |-> FALSE, url |-> u, title |-> None, body |-> Some(<<>>),
     error |-> Some(error), fetch_method |-> fetch_method,
     status_code |-> status_code, content_length |-> 0,
     elapsed_ms |-> elapsed_ms]

make_failure(u, error, fetch_method, status_code, elapsed_ms) ==
    [success |-> FALSE, url |-> u, title |-> None, body |-> None,
     error |-> Some(error), fetch_method |-> fetch_method,
     status_code |-> status_code, content_length |-> 0,
     elapsed_ms |-> elapsed_ms]

\* how a call ends: it returns a value or an exception leaves it
Return(v) == [raise |-> FALSE, exc |-> "", msg |-> "", value |-> v]
Raise(exc, msg) ==
    [raise |-> TRUE, exc |-> exc, msg |-> msg, value |-> make_failure("", msg, None, None, 0)]

\* f"{type(err).__name__}: {err}"
ErrText(r) == r.exc \o ": " \o r.msg

\* int((time.monotonic() - start) * 1000), the clock read being t
_elapsed_ms(start, t) == (t - start) \div TicksPerMs

\* ------------------------------------------------------------- sample inputs
Urls == {"https://example.com"}

ShortBody == Filler(HttpMinBody - 1)
ExactBody == Filler(HttpMinBody)
JsBody == JsNoticeText \o Filler(HttpMinBody - Len(JsNoticeText))
MentionBody == MentionText \o Filler(HttpMinBody)
Bodies == {ShortBody, ExactBody, JsBody, MentionBody}
BodyOpts == {None} \cup {Some(b) : b \in Bodies}
Titles == {None, Some("Example Domain")}
ContentTypes == {CtHtml, CtHtmlUpper, CtJson, CtMissing}
Statuses == {200, 403, 404, 429, 599, 600}

\* -------------------------------------------------------------- fetch_http.py
\* response.url once redirects were followed (follow_redirects=True)
FinalUrls == {"https://example.com", "https://www.example.com/"}

\* what the network and the parser do to one GET
HttpOutcomes ==
    {[kind |-> "exception", exc |-> "ConnectError", msg |-> "Name or service not known",
      status |-> 0, content_type |-> CtMissing, parse_raises |-> FALSE,
      title |-> None, body |-> None, final_url |-> ""]}
    \cup
    [kind : {"response"}, exc : {"ParserError"}, msg : {"Document is empty"},
     status : Statuses, content_type : ContentTypes, parse_raises : BOOLEAN,
     title : Titles, body : BodyOpts, final_url : FinalUrls]

\* slip: the length test is left out, only a null body fails
http_extract_from_html_nolen(u, o, status_code, elapsed_ms) ==
    IF o.parse_raises THEN Raise(o.exc, o.msg)
    ELSE IF o.body = None
    THEN Return(make_failure(u, "Body too short", Some("httpx"), Some(status_code), elapsed_ms))
    ELSE Return(make_success(u, o.title, Get(o.body), "httpx", Some(status_code), elapsed_ms))

\* slip: the url the redirects ended at is reported
http_extract_from_html_final_url(u, o, status_code, elapsed_ms) ==
    IF o.parse_raises THEN Raise(o.exc, o.msg)
    ELSE IF o.body = None \/ Len(Get(o.body)) < HttpMinBody
    THEN Return(make_failure(o.final_url, "Body too short", Some("httpx"),
                             Some(status_code), elapsed_ms))
    ELSE Return(make_success(o.final_url, o.title, Get(o.body), "httpx",
                             Some(status_code), elapsed_ms))

http_extract_from_html(u, o, status_code, elapsed_ms) ==
    IF o.parse_raises THEN Raise(o.exc, o.msg)
    ELSE IF o.body = None \/ Len(Get(o.body)) < HttpMinBody
    THEN Return(make_failure(u, "Body too short", Some("httpx"), Some(status_code), elapsed_ms))
    ELSE Return(make_success(u, o.title, Get(o.body), "httpx", Some(status_code), elapsed_ms))

\* the body of fetch_http's try block
fetch_http_try(u, start, t, o) ==
    IF o.kind = "exception" THEN Raise(o.exc, o.msg)
    ELSE IF o.status >= HttpErrorStatus
    THEN Return(make_failure(u, "HTTP " \o ToString(o.status), Some("httpx"),
                             Some(o.status), _elapsed_ms(start, t)))
    ELSE IF ~Contains(lower(o.content_type), <<"h","t","m","l">>)
    THEN Return(make_failure(u, "Non-HTML content type: " \o Str(o.content_type),
                             Some("httpx"), Some(o.status), _elapsed_ms(start, t)))
    ELSE http_extract_from_html(u, o, o.status, _elapsed_ms(start, t))

fetch_http(u, start, t, o) ==
    LET r == fetch_http_try(u, start, t, o)
    IN  IF r.raise
        THEN Return(make_failure(u, ErrText(r), Some("httpx"), None, _elapsed_ms(start, t)))
        ELSE r

\* ------------------------------------------------------- fetch_trafilatura.py
\* what the worker pool, the deadline and the library do to one call
TrafOutcomes ==
    [kind : {"timeout", "exception", "returned"},
     exc : {"RuntimeError"}, msg : {"cannot schedule new futures after shutdown"},
     downloaded : BOOLEAN, extracted : BodyOpts, title : Titles]

\* (downloaded, extracted) as _download_and_extract returns them
_download_and_extract(o) ==
    IF ~o.downloaded THEN <<FALSE, None>> ELSE <<TRUE, o.extracted>>

\* slip: the library's metadata is not asked for the title
_extract_title_none(downloaded, o) == None

\* title from the library's metadata
_extract_title(downloaded, o) ==
    IF ~downloaded THEN None ELSE o.title

\* the body of fetch_trafilatura's try block
fetch_trafilatura_try(u, start, t, o) ==
    IF o.kind = "timeout" THEN Raise("TimeoutError", "")
    ELSE IF o.kind = "exception" THEN Raise(o.exc, o.msg)
    ELSE LET de == _download_and_extract(o)
             extracted == de[2]
         IN  IF extracted = None \/ Len(Get(extracted)) < TrafMinBody
             THEN Return(make_failure(u, "Body too short or extraction failed",
                                      Some("trafilatura"), None, _elapsed_ms(start, t)))
             ELSE Return(make_success(u, _extract_title(de[1], o), Get(extracted),
                                      "trafilatura", None, _elapsed_ms(start, t)))

fetch_trafilatura(u, start, t, o) ==
    LET r == fetch_trafilatura_try(u, start, t, o)
    IN  IF r.raise /\ r.exc = "TimeoutError"
        THEN Return(make_failure(u, "Trafilatura timeout", Some("trafilatura"), None,
                                 _elapsed_ms(start, t)))
        ELSE IF r.raise
        THEN Return(make_failure(u, ErrText(r), Some("trafilatura"), None,
                                 _elapsed_ms(start, t)))
        ELSE r

\* ------------------------------- fetch_trafilatura.py: the worker pool
\* TIMEOUT_SECONDS = 15
TIMEOUT_SECONDS == 15
\* _executor = ThreadPoolExecutor(max_workers=4)
max_workers == 4

\* the clock of the pool moves in steps of so many seconds
TickSeconds == 8

\* one concurrent call more than there are workers, numbered as they submit
PoolCalls == 1..(max_workers + 1)

\* one call of fetch_trafilatura: job is its work item in _executor ("none",
\* "queued", "running", "done", or "cancelled" while it was queued), caller
\* the coroutine ("idle", "waiting" in wait_for, "done", "cancelled"), age the
\* ticks since wait_for was entered, out what the call returned
NewFuture == [job |-> "none", caller |-> "idle", age |-> 0, out |-> None]

running(fs) == {c \in DOMAIN fs : fs[c].job = "running"}

\* slip: a worker is found for every job
worker_free_always(fs) == TRUE

\* a thread of the pool is idle, or fewer than max_workers threads exist
worker_free(fs) == Cardinality(running(fs)) < max_workers

\* the timeout of asyncio.wait_for has run out
expired(f) == f.age * TickSeconds >= TIMEOUT_SECONDS

\* how wait_for ends for the caller, as an outcome of fetch_trafilatura
wait_for_end(kind) ==
    [kind |-> kind, exc |-> "RuntimeError",
     msg |-> "cannot schedule new futures after shutdown",
     downloaded |-> TRUE, extracted |-> Some(ExactBody), title |-> None]

\* fetch_trafilatura returns: the code after wait_for, or an except clause
returns(f, u, kind) ==
    [f EXCEPT !.caller = "done",
              !.out = Some(fetch_trafilatura(u, 0, f.age * TickSeconds * 1000 * TicksPerMs,
                                             wait_for_end(kind)).value)]

\* wait_for cancels the future: a work item still queued will not be run, a
\* running thread cannot be stopped
cancel_future(f) == [f EXCEPT !.job = IF @ = "queued" THEN "cancelled" ELSE @]

\* -------------------------------------------------------- fetch_playwright.py
\* a body extract_text_content can return: null or at least MIN_BODY_LENGTH long
LxmlOpts == {None} \cup {Some(b) : b \in {x \in Bodies : Len(x) >= MIN_BODY_LENGTH}}

\* what the browser, the page and the two extractors do to one browser operation
PageOutcomes ==
    \* launch, context creation, navigation or close raised
    {[kind |-> "exception", exc |-> "TimeoutError", msg |-> "Timeout 30000ms exceeded.",
      status |-> None, traf |-> None, lxml |-> None, title |-> None]}
    \cup
    \* the server answered with an error status
    [kind : {"page"}, exc : {""}, msg : {""}, status : {Some(404)},
     traf : {None, Some(ExactBody)}, lxml : {None}, title : Titles]
    \cup
    [kind : {"page"}, exc : {""}, msg : {""}, status : {Some(200)},
     traf : BodyOpts, lxml : LxmlOpts, title : Titles]
    \cup
    \* page.goto returned no response
    {[kind |-> "page", exc |-> "", msg |-> "", status |-> None,
      traf |-> Some(ExactBody), lxml |-> None, title |-> None]}

\* trafilatura.extract(html), None if it raises
_try_trafilatura(o) == o.traf

\* extract_text_content(parse_html(html)), None if it raises
_try_lxml(o) == o.lxml

\* slip: the in-house extractor is tried first
pw_extract_from_html_lxml_first(u, o, status_code, elapsed_ms, method) ==
    LET first == _try_lxml(o)
        body == IF first = None \/ Len(Get(first)) < PwMinBody THEN _try_trafilatura(o) ELSE first
    IN  IF body = None \/ Len(Get(body)) < PwMinBody
        THEN Return(make_failure(u, "Body too short", Some(method), status_code, elapsed_ms))
        ELSE Return(make_success(u, o.title, Get(body), method, status_code, elapsed_ms))

pw_extract_from_html(u, o, status_code, elapsed_ms, method) ==
    LET first == _try_trafilatura(o)
        body == IF first = None \/ Len(Get(first)) < PwMinBody THEN _try_lxml(o) ELSE first
    IN  IF body = None \/ Len(Get(body)) < PwMinBody
        THEN Return(make_failure(u, "Body too short", Some(method), status_code, elapsed_ms))
        ELSE Return(make_success(u, o.title, Get(body), method, status_code, elapsed_ms))

\* slip: both modes report the same tag
_fetch_page_one_tag(u, start, t, o, js_enabled) ==
    LET method == "playwright"
        status_code == o.status
    IN  IF o.kind = "exception" THEN Raise(o.exc, o.msg)
        ELSE IF status_code # None /\ Get(status_code) # 0
                /\ Get(status_code) >= HttpErrorStatus
        THEN Return(make_failure(u, "HTTP " \o ToString(Get(status_code)), Some(method),
                                 status_code, _elapsed_ms(start, t)))
        ELSE pw_extract_from_html(u, o, status_code, _elapsed_ms(start, t), method)

_fetch_page(u, start, t, o, js_enabled) ==
    LET method == IF js_enabled THEN "playwright" ELSE "playwright-nojs"
        status_code == o.status
    IN  IF o.kind = "exception" THEN Raise(o.exc, o.msg)
        ELSE IF status_code # None /\ Get(status_code) # 0
                /\ Get(status_code) >= HttpErrorStatus
        THEN Return(make_failure(u, "HTTP " \o ToString(Get(status_code)), Some(method),
                                 status_code, _elapsed_ms(start, t)))
        ELSE pw_extract_from_html(u, o, status_code, _elapsed_ms(start, t), method)

fetch_playwright_nojs(u, start, t, o) ==
    LET r == _fetch_page(u, start, t, o, FALSE)
    IN  IF r.raise
        THEN Return(make_failure(u, ErrText(r), Some("playwright-nojs"), None,
                                 _elapsed_ms(start, t)))
        ELSE r

\* slip: no except clause around _fetch_page
fetch_playwright_uncaught(u, start, t, o) == _fetch_page(u, start, t, o, TRUE)

fetch_playwright(u, start, t, o) ==
    LET r == _fetch_page(u, start, t, o, TRUE)
    IN  IF r.raise
        THEN Return(make_failure(u, ErrText(r), Some("playwright"), None,
                                 _elapsed_ms(start, t)))
        ELSE r

\* slip: the body is not lower-cased before the phrases are looked for
requires_javascript_case_sensitive(result) ==
    IF result.body = None \/ Get(result.body) = <<>> THEN FALSE
    ELSE \E k \in 1..Len(_JS_REQUIRED_PHRASES) :
             Contains(Get(result.body), _JS_REQUIRED_PHRASES[k])

requires_javascript(result) ==
    IF result.body = None \/ Get(result.body) = <<>> THEN FALSE
    ELSE LET low == lower(Get(result.body))
         IN  \E k \in 1..Len(_JS_REQUIRED_PHRASES) : Contains(low, _JS_REQUIRED_PHRASES[k])

\* ------------------------------------------------------------------ extract.py
\* slip: 403 and 429 are not taken out of the set
SKIP_ALL_ERROR_CODES == SkipLo..(SkipHi - 1)

SKIP_TO_TIER3_CODES == (SkipLo..(SkipHi - 1)) \ {Forbidden, TooManyRequests}

\* slip: only server errors skip
_should_skip_server_errors_only(result) ==
    result.status_code # None /\ Get(result.status_code) \in 500..(SkipHi - 1)

_should_skip_to_tier3(result) ==
    result.status_code # None /\ Get(result.status_code) \in SKIP_TO_TIER3_CODES

\* slip: the skip to tier 3 does not look at max_tier
after_tier1_skip_unclamped(tier1_res, mt) ==
    IF tier1_res.success THEN "return"
    ELSE IF mt < 2 THEN "return"
    ELSE IF _should_skip_to_tier3(tier1_res) THEN "tier3"
    ELSE "tier2"

\* slip: no return for max_tier < 2
after_tier1_no_limit(tier1_res, mt) ==
    IF tier1_res.success THEN "return"
    ELSE IF _should_skip_to_tier3(tier1_res) /\ mt >= 3 THEN "tier3"
    ELSE "tier2"

\* extract, from the return of fetch_http to the next await or return
\* slip: only max_tier = 1 stops after tier 1
after_tier1_exact(tier1_res, mt) ==
    IF tier1_res.success THEN "return"
    ELSE IF mt = 1 THEN "return"
    ELSE IF _should_skip_to_tier3(tier1_res) /\ mt >= 3 THEN "tier3"
    ELSE "tier2"

after_tier1(tier1_res, mt) ==
    IF tier1_res.success THEN "return"
    ELSE IF mt < 2 THEN "return"
    ELSE IF _should_skip_to_tier3(tier1_res) /\ mt >= 3 THEN "tier3"
    ELSE "tier2"

\* slip: a failed tier 2 is tried again
after_tier2_retry(tier2_res, mt) ==
    IF tier2_res.success THEN "return"
    ELSE IF mt < 3 THEN "return"
    ELSE IF tier2_res.error = Some("Trafilatura timeout") THEN "tier2"
    ELSE "tier3"

\* extract, from the return of fetch_trafilatura to the next await or return
after_tier2(tier2_res, mt) ==
    IF tier2_res.success THEN "return"
    ELSE IF mt < 3 THEN "return"
    ELSE "tier3"

\* _run_tier3_and_4, from the return of fetch_playwright_nojs on
\* slip: a tier-3 success is returned whatever its body says
after_tier3_any_success(tier3_res, mt) ==
    IF tier3_res.success THEN "return"
    ELSE IF mt < 4 THEN "return"
    ELSE "tier4"

after_tier3(tier3_res, mt) ==
    IF tier3_res.success /\ ~requires_javascript(tier3_res) THEN "return"
    ELSE IF mt < 4 THEN "return"
    ELSE "tier4"

\* slip: the terminal failure names no tier
after_tier4_no_method(u, tier4_res, start, t) ==
    IF tier4_res.success THEN tier4_res
    ELSE make_failure(u, "All tiers failed: " \o Get(tier4_res.error), None,
                      tier4_res.status_code, _elapsed_ms(start, t))

\* slip: tier 4's own failure is returned as it is
after_tier4_passthrough(u, tier4_res, start, t) == tier4_res

\* _run_tier3_and_4, from the return of fetch_playwright on: the value returned
after_tier4(u, tier4_res, start, t) ==
    IF tier4_res.success THEN tier4_res
    ELSE make_failure(u, "All tiers failed: " \o Get(tier4_res.error), Some("playwright"),
                      tier4_res.status_code, _elapsed_ms(start, t))

\* ------------------------------------- fetch_playwright.py: the permit pool
\* _browser_semaphore = asyncio.Semaphore(3)
BrowserPermits == 3

\* the concurrent extract calls whose browser tier is observed
NumCalls == 4
Calls == 1..NumCalls

\* calls with an even number are in fetch_playwright, the others in
\* fetch_playwright_nojs: both enter the same `async with _browser_semaphore`
js_enabled_of(c) == c % 2 = 0

\* how an awaited call ends: it returns, it raises an Exception, or the task
\* is cancelled while suspended in it (asyncio.CancelledError, a BaseException)
AwaitEnds == {"ok", "raise", "cancel"}

\* one browser operation. pc is the await it is suspended in; pending is what
\* is travelling up the try/finally blocks ("return", "raise" or "cancel");
\* browser and ctx tell whether the operation has a browser and a context it
\* has not closed yet: close(), once awaited to its end, has closed them;
\* held: the operation is inside the async with
NewOp ==
    [pc |-> "idle", pending |-> "none", held |-> FALSE, browser |-> FALSE,
     ctx |-> FALSE, cancelled |-> FALSE]

\* what a finished await leaves travelling: an exception of the await replaces
\* whatever was travelling before it
travelling(op, o) == IF o = "ok" THEN op.pending ELSE o

\* a task is cancelled once
ends(op) == IF op.cancelled THEN AwaitEnds \ {"cancel"} ELSE AwaitEnds

\* asyncio.Semaphore.locked(): no free permit, or somebody queues already
locked_never(value, waiters) == FALSE

locked(value, waiters) == value = 0 \/ waiters # <<>>

\* async with async_playwright() as pw: browser = await pw.chromium.launch();
\* when it does not return there is no browser and no finally to run
launch(op, o) ==
    IF o = "ok"
    THEN [op EXCEPT !.browser = TRUE, !.pc = "new_context"]
    ELSE [op EXCEPT !.pending = o, !.pc = "stop", !.cancelled = @ \/ o = "cancel"]

\* ctx = await browser.new_context(...), inside try ... finally browser.close()
new_context(op, o) ==
    IF o = "ok"
    THEN [op EXCEPT !.ctx = TRUE, !.pc = "page"]
    ELSE [op EXCEPT !.pending = o, !.pc = "browser_close",
                    !.cancelled = @ \/ o = "cancel"]

\* new_page, goto, the waits, content() and _extract_from_html, inside
\* try ... finally ctx.close(): each of the two return statements and every
\* exception leaves through the finally
page_skips_finally(op, o) ==
    IF o = "ok"
    THEN [op EXCEPT !.pending = "return", !.pc = "ctx_close"]
    ELSE [op EXCEPT !.pending = o, !.pc = "stop", !.cancelled = @ \/ o = "cancel"]

page(op, o) ==
    [op EXCEPT !.pending = IF o = "ok" THEN "return" ELSE o, !.pc = "ctx_close",
               !.cancelled = @ \/ o = "cancel"]

\* finally: await ctx.close()
ctx_close(op, o) ==
    [op EXCEPT !.ctx = FALSE, !.pending = travelling(op, o),
               !.pc = "browser_close", !.cancelled = @ \/ o = "cancel"]

\* finally: await browser.close()
browser_close(op, o) ==
    [op EXCEPT !.browser = FALSE, !.pending = travelling(op, o),
               !.pc = "stop", !.cancelled = @ \/ o = "cancel"]

\* fetch_playwright's except Exception turns an exception into a failure
\* result; a CancelledError is not an Exception and passes through
except_Exception(pending) == IF pending = "raise" THEN "return" ELSE pending

\* the end of async with async_playwright(), then the except clause, then the
\* end of async with _browser_semaphore
leave(op, o) ==
    [op EXCEPT !.pending = except_Exception(travelling(op, o)), !.held = FALSE,
               !.pc = "done", !.cancelled = @ \/ o = "cancel"]

\* ------------------------------------ extract.py: tier 3, then tier 4
\* one extract call more than there are permits, each with two browser
\* operations: operation 2k - 1 is call k's fetch_playwright_nojs, operation
\* 2k its fetch_playwright
ExtractCalls == 1..(BrowserPermits + 1)
Operations == 1..(2 * (BrowserPermits + 1))
tier3_op(k) == 2 * k - 1
tier4_op(k) == 2 * k

\* slip: both browser tiers are started together
tier4_started_with_tier3(op3) == op3.pc # "idle"

\* tier3_result = await fetch_playwright_nojs(url) has returned a result
\* before tier4_result = await fetch_playwright(url) is reached
tier4_may_start(op3) == op3.pc = "done" /\ op3.pending = "return"

\* the awaits inside `async with _browser_semaphore`, one after the other
body_step(op, o) ==
    CASE op.pc = "launch" -> launch(op, o)
      [] op.pc = "new_context" -> new_context(op, o)
      [] op.pc = "page" -> page(op, o)
      [] op.pc = "ctx_close" -> ctx_close(op, o)
      [] op.pc = "browser_close" -> browser_close(op, o)
      [] OTHER -> op

\* where the operations of a set are after one more await each
after_await(S) == UNION {{body_step(op, o) : o \in ends(op)} : op \in S}

\* where an operation can be after launch, new_context, the page, ctx.close()
\* and browser.close()
held_body(op) == after_await(after_await(after_await(after_await(after_await({op})))))

\* ------------------------------------------------- content.py: classifier sets
NOISE_TAGS == {
    "script", "style", "nav", "footer", "aside", "header", "noscript", "iframe",
    "form", "svg", "button", "select", "option", "textarea", "input", "label",
    "fieldset", "legend", "dialog", "menu", "menuitem", "details", "summary" }

NOISE_CLASSES == {
    <<"a","d">>,
    <<"a","d","s">>,
    <<"a","d","v","e","r","t">>,
    <<"a","d","v","e","r","t","i","s","e","m","e","n","t">>,
    <<"b","a","n","n","e","r">>,
    <<"s","p","o","n","s","o","r">>,
    <<"s","p","o","n","s","o","r","e","d">>,
    <<"p","r","o","m","o">>,
    <<"p","r","o","m","o","t","i","o","n">>,
    <<"s","i","d","e","b","a","r">>,
    <<"w","i","d","g","e","t">>,
    <<"s","o","c","i","a","l">>,
    <<"s","h","a","r","e">>,
    <<"s","h","a","r","i","n","g">>,
    <<"c","o","o","k","i","e">>,
    <<"c","o","n","s","e","n","t">>,
    <<"p","o","p","u","p">>,
    <<"m","o","d","a","l">>,
    <<"o","v","e","r","l","a","y">>,
    <<"n","e","w","s","l","e","t","t","e","r">>,
    <<"s","u","b","s","c","r","i","b","e">>,
    <<"s","i","g","n","u","p">>,
    <<"s","i","g","n","-","u","p">>,
    <<"c","t","a">>,
    <<"c","a","l","l","-","t","o","-","a","c","t","i","o","n">>,
    <<"r","e","l","a","t","e","d">>,
    <<"r","e","c","o","m","m","e","n","d","e","d">>,
    <<"t","r","e","n","d","i","n","g">>,
    <<"p","o","p","u","l","a","r">>,
    <<"b","r","e","a","d","c","r","u","m","b">>,
    <<"p","a","g","i","n","a","t","i","o","n">>,
    <<"p","a","g","e","r">>,
    <<"t","o","o","l","b","a","r">>,
    <<"t","o","o","l","t","i","p">>,
    <<"d","r","o","p","d","o","w","n">>,
    <<"c","o","m","m","e","n","t">>,
    <<"c","o","m","m","e","n","t","s">>,
    <<"d","i","s","q","u","s">> }

NOISE_IDS == {
    <<"a","d">>,
    <<"a","d","s">>,
    <<"s","i","d","e","b","a","r">>,
    <<"c","o","o","k","i","e","-","b","a","n","n","e","r">>,
    <<"n","e","w","s","l","e","t","t","e","r">>,
    <<"c","o","m","m","e","n","t","s">>,
    <<"d","i","s","q","u","s","_","t","h","r","e","a","d">>,
    <<"s","o","c","i","a","l","-","s","h","a","r","e">> }

NOISE_ROLES == {
    <<"n","a","v","i","g","a","t","i","o","n">>,
    <<"b","a","n","n","e","r">>,
    <<"c","o","m","p","l","e","m","e","n","t","a","r","y">>,
    <<"c","o","n","t","e","n","t","i","n","f","o">>,
    <<"f","o","r","m">>,
    <<"s","e","a","r","c","h">>,
    <<"m","e","n","u">>,
    <<"m","e","n","u","b","a","r">> }

CONTENT_TAGS == {
    "p", "h1", "h2", "h3", "h4", "h5", "h6", "li",
    "blockquote", "td", "th", "figcaption", "pre", "dd" }

MIN_BLOCK_LENGTH == 15

\* the separators of TITLE_SUFFIX_RE: | - and the en and em dashes, the two
\* dashes written here by name
TitleSeparators == {"|", "-", "en dash", "em dash"}

\* ---------------------------------------------------- content.py: text helpers
\* what str.strip(), str.split() and the pattern \s take for white space
IsSpace(c) == c \in {" ", "\n", "\t", "\r"}

RECURSIVE lstrip(_)
lstrip(s) == IF s # <<>> /\ IsSpace(Head(s)) THEN lstrip(Tail(s)) ELSE s

RECURSIVE rstrip(_)
rstrip(s) ==
    IF s # <<>> /\ IsSpace(s[Len(s)]) THEN rstrip(SubSeq(s, 1, Len(s) - 1)) ELSE s

\* str.strip()
strip(s) == rstrip(lstrip(s))

\* white space deleted rather than made one space
collapse_spaces_delete(s) == SelectSeq(s, LAMBDA c : ~IsSpace(c))

\* re.sub(r"\s+", " ", text)
collapse_spaces(s) ==
    LET kept == SelectSeq([i \in 1..Len(s) |-> i],
                          LAMBDA i : ~IsSpace(s[i]) \/ i = 1 \/ ~IsSpace(s[i - 1]))
    IN  [k \in 1..Len(kept) |-> IF IsSpace(s[kept[k]]) THEN " " ELSE s[kept[k]]]

\* set(str.split()): the white-space separated tokens
RECURSIVE split(_)
split(s) ==
    LET t == lstrip(s)
        gaps == {i \in 1..Len(t) : IsSpace(t[i])}
        n == IF gaps = {} THEN Len(t) + 1 ELSE CHOOSE i \in gaps : \A j \in gaps : i <= j
    IN  IF t = <<>> THEN {} ELSE {SubSeq(t, 1, n - 1)} \cup split(SubSeq(t, n, Len(t)))

\* sep.join(parts)
RECURSIVE join(_, _)
join(sep, parts) ==
    IF parts = <<>> THEN <<>>
    ELSE IF Len(parts) = 1 THEN parts[1]
    ELSE parts[1] \o sep \o join(sep, Tail(parts))

\* ------------------------------------------------ content.py: the parsed tree
\* a parsed document is the sequence of its elements in document order: element
\* 1 is the root; parent is the number of the parent, 0 for the root and for an
\* element removed from its parent; text is the text before the first child,
\* tail the text between the element's end and its next sibling; an absent
\* class, id, role or href is empty as el.get(name, "") has it
El(tag, parent, text, tail) ==
    [tag |-> tag, parent |-> parent, text |-> text, tail |-> tail, class |-> <<>>,
     id |-> <<>>, role |-> <<>>, property |-> "", content |-> None, href |-> <<>>]

\* el is in the tree that hangs from the root
RECURSIVE attached(_, _)
attached(tree, i) == i = 1 \/ (tree[i].parent # 0 /\ attached(tree, tree[i].parent))

\* tree.xpath("//*"): every element of the document, in document order
xpath_all(tree) == SelectSeq([i \in 1..Len(tree) |-> i], LAMBDA i : attached(tree, i))

\* el.text_content(): the element's text, then each child's text_content and
\* tail, in order
RECURSIVE text_content(_, _), text_of_children(_, _, _)
text_of_children(tree, i, j) ==
    IF j > Len(tree) THEN <<>>
    ELSE IF tree[j].parent = i
         THEN text_content(tree, j) \o tree[j].tail \o text_of_children(tree, i, j + 1)
         ELSE text_of_children(tree, i, j + 1)

text_content_own_text(tree, i) == tree[i].text

text_content(tree, i) == tree[i].text \o text_of_children(tree, i, i + 1)

\* the text nodes under an element, in document order (xpath //text())
RECURSIVE descendant_texts(_, _), texts_of_children(_, _, _)
texts_of_children(tree, i, j) ==
    IF j > Len(tree) THEN <<>>
    ELSE IF tree[j].parent = i
         THEN descendant_texts(tree, j)
              \o (IF tree[j].tail = <<>> THEN <<>> ELSE <<tree[j].tail>>)
              \o texts_of_children(tree, i, j + 1)
         ELSE texts_of_children(tree, i, j + 1)

descendant_texts(tree, i) ==
    (IF tree[i].text = <<>> THEN <<>> ELSE <<tree[i].text>>)
    \o texts_of_children(tree, i, i + 1)

\* the text nodes that are children of an element (xpath /text())
child_texts(tree, i) ==
    LET kids == SelectSeq(xpath_all(tree),
                          LAMBDA j : tree[j].parent = i /\ tree[j].tail # <<>>)
    IN  (IF tree[i].text = <<>> THEN <<>> ELSE <<tree[i].text>>)
        \o [k \in 1..Len(kids) |-> tree[kids[k]].tail]

\* the concatenation of a sequence of sequences
RECURSIVE flatten(_)
flatten(ss) == IF ss = <<>> THEN <<>> ELSE Head(ss) \o flatten(Tail(ss))

\* ---------------------------------------------------- content.py: extract_title
\* TITLE_SUFFIX_RE.sub("", title): the pattern ends at the end of the title and
\* allows no separator after its own, so it can only match at the last
\* separator, when something follows it, from the white space before it on
_clean_title_suffix(title) ==
    LET seps == {i \in 1..Len(title) : title[i] \in TitleSeparators}
        last == CHOOSE i \in seps : \A j \in seps : j <= i
        start == CHOOSE k \in 1..last :
                    /\ \A m \in k..(last - 1) : IsSpace(title[m])
                    /\ k = 1 \/ ~IsSpace(title[k - 1])
        cleaned == SubSeq(title, 1, start - 1)
    IN  IF seps = {} \/ last = Len(title) THEN title
        ELSE IF strip(cleaned) # <<>> THEN cleaned ELSE title

\* tree.xpath('//meta[@property="og:title"]/@content')
og_contents(tree) ==
    LET metas == SelectSeq(xpath_all(tree),
                           LAMBDA i : /\ tree[i].tag = "meta"
                                      /\ tree[i].property = "og:title"
                                      /\ tree[i].content # None)
    IN  [k \in 1..Len(metas) |-> Get(tree[metas[k]].content)]

\* tree.xpath("//title/text()")
title_texts(tree) ==
    LET els == SelectSeq(xpath_all(tree), LAMBDA i : tree[i].tag = "title")
    IN  flatten([k \in 1..Len(els) |-> child_texts(tree, els[k])])

\* tree.xpath("//h1//text()")
h1_texts(tree) ==
    LET els == SelectSeq(xpath_all(tree), LAMBDA i : tree[i].tag = "h1")
    IN  flatten([k \in 1..Len(els) |-> descendant_texts(tree, els[k])])

extract_title(tree) ==
    LET og == og_contents(tree)
        title_els == title_texts(tree)
        h1_els == h1_texts(tree)
        kept == SelectSeq(h1_els, LAMBDA t : strip(t) # <<>>)
        combined == join(<<" ">>, [k \in 1..Len(kept) |-> strip(kept[k])])
    IN  IF og # <<>> /\ strip(og[1]) # <<>> THEN Some(strip(og[1]))
        ELSE IF title_els # <<>> /\ strip(title_els[1]) # <<>>
             THEN Some(_clean_title_suffix(strip(title_els[1])))
        ELSE IF h1_els # <<>> /\ combined # <<>> THEN Some(combined)
        ELSE None

\* --------------------------------------------- content.py: extract_text_content
_is_noise_element_case_sensitive(el) ==
    \/ el.tag \in NOISE_TAGS
    \/ split(el.class) \cap NOISE_CLASSES # {}
    \/ el.id \in NOISE_IDS
    \/ el.role \in NOISE_ROLES

_is_noise_element(el) ==
    \/ el.tag \in NOISE_TAGS
    \/ split(lower(el.class)) \cap NOISE_CLASSES # {}
    \/ lower(el.id) \in NOISE_IDS
    \/ lower(el.role) \in NOISE_ROLES

\* the matches are collected first, then each is removed from its parent; the
\* root has no parent and stays
_remove_noise(tree) ==
    LET all == xpath_all(tree)
        to_remove == {all[k] : k \in {n \in 1..Len(all) : _is_noise_element(tree[all[n]])}}
    IN  [i \in 1..Len(tree) |->
            IF i \in to_remove /\ tree[i].parent # 0
            THEN [tree[i] EXCEPT !.parent = 0]
            ELSE tree[i]]

_collect_blocks(tree) ==
    LET block(i) == collapse_spaces(strip(text_content(tree, i)))
        els == SelectSeq(xpath_all(tree),
                         LAMBDA i : tree[i].tag \in CONTENT_TAGS /\ block(i) # <<>>)
    IN  [k \in 1..Len(els) |-> block(els[k])]

\* extract_text_content dropping a block of exactly MIN_BLOCK_LENGTH characters
extract_text_content_long_blocks(tree) ==
    LET blocks == _collect_blocks(_remove_noise(tree))
        filtered == SelectSeq(blocks, LAMBDA b : Len(b) > MIN_BLOCK_LENGTH)
        body == join(<<"\n", "\n">>, filtered)
    IN  IF Len(body) < MIN_BODY_LENGTH THEN None ELSE Some(body)

\* extract_text_content refusing a body of exactly MIN_BODY_LENGTH characters
extract_text_content_min_exclusive(tree) ==
    LET blocks == _collect_blocks(_remove_noise(tree))
        filtered == SelectSeq(blocks, LAMBDA b : Len(b) >= MIN_BLOCK_LENGTH)
        body == join(<<"\n", "\n">>, filtered)
    IN  IF Len(body) <= MIN_BODY_LENGTH THEN None ELSE Some(body)

\* the value extract_text_content returns; the tree it was given is left as
\* _remove_noise(tree)
extract_text_content(tree) ==
    LET blocks == _collect_blocks(_remove_noise(tree))
        filtered == SelectSeq(blocks, LAMBDA b : Len(b) >= MIN_BLOCK_LENGTH)
        body == join(<<"\n", "\n">>, filtered)
    IN  IF Len(body) < MIN_BODY_LENGTH THEN None ELSE Some(body)

\* ------------------------------------------------------ content.py: documents
\* an article paragraph of at least MIN_BODY_LENGTH characters
ArticleText ==
    <<"R","e","g","i","o","n","a","l"," ","w","a","t","e","r"," ","q","u","a","l","i","t","y"," ","i","m","p","r","o","v","e","d"," ","f","o","r"," ","t","h","e"," ","t","h","i","r","d"," ","y","e","a","r"," ","r","u","n","n","i","n","g",","," ","t","h","e"," ","a","g","e","n","c","y"," ","s","a","i","d"," ","i","n"," ","i","t","s"," ","a","n","n","u","a","l"," ","r","e","p","o","r","t"," ","t","o","d","a","y",".">>

\* the texts put into noise subtrees: directly in the noise element, and in
\* content-tag elements nested in it, long enough to be kept as blocks
NoiseOwnText == <<"S","p","o","n","s","o","r","e","d"," ","o","f","f","e","r","s"," ","j","u","s","t"," ","f","o","r"," ","y","o","u">>
NoiseParagraphText == <<"S","u","b","s","c","r","i","b","e"," ","n","o","w"," ","a","n","d"," ","s","a","v","e"," ","f","i","f","t","y"," ","p","e","r","c","e","n","t">>
NoiseItemText == <<"T","r","e","n","d","i","n","g"," ","s","t","o","r","i","e","s"," ","y","o","u"," ","m","a","y"," ","l","i","k","e">>
AfterNoiseText == <<" ","a","n","d"," ","m","o","r","e"," ","w","a","s"," ","p","r","o","m","i","s","e","d",".">>

\* an element an author marks as noise: one per noise tag, and for each class
\* token, id and role a div carrying it, alone, among other class tokens, or
\* in capitals
NoiseElements ==
    {El(t, 2, NoiseOwnText, <<>>) : t \in NOISE_TAGS}
    \cup {[El("div", 2, NoiseOwnText, <<>>) EXCEPT !.class = c] : c \in NOISE_CLASSES}
    \cup {[El("div", 2, NoiseOwnText, <<>>) EXCEPT
              !.class = <<"l","e","a","d"," ">> \o c \o <<"\n"," ","w","i","d","e">>] : c \in NOISE_CLASSES}
    \cup {[El("div", 2, NoiseOwnText, <<>>) EXCEPT !.id = c] : c \in NOISE_IDS}
    \cup {[El("section", 2, NoiseOwnText, <<>>) EXCEPT !.role = c] : c \in NOISE_ROLES}
    \cup {[El("div", 2, NoiseOwnText, <<>>) EXCEPT !.class = <<"A","D">>],
          [El("div", 2, NoiseOwnText, <<>>) EXCEPT !.class = <<"S","i","d","e","b","a","r"," ","L","e","f","t">>],
          [El("div", 2, NoiseOwnText, <<>>) EXCEPT !.id = <<"C","o","m","m","e","n","t","s">>],
          [El("div", 2, NoiseOwnText, <<>>) EXCEPT !.role = <<"N","a","v","i","g","a","t","i","o","n">>]}

\* a document with its labels: the article paragraph, the root of the noise
\* subtree and the paragraph with a link, 0 when it has none
Labelled(nodes, article, noise, link) ==
    [nodes |-> nodes, article |-> article, noise |-> noise, link |-> link]

\* <body><p>article</p><N>noise<p>noise</p></N></body>
NoiseAfter(n) ==
    Labelled(<<El("html", 0, <<>>, <<>>), El("body", 1, <<>>, <<>>),
               El("p", 2, ArticleText, <<"\n">>), n,
               El("p", 4, NoiseParagraphText, <<>>)>>, 3, 4, 0)

\* <body><N>noise<div><ul><li>noise</li></ul></div></N><p>article</p></body>
NoiseBefore(n) ==
    Labelled(<<El("html", 0, <<>>, <<>>), El("body", 1, <<>>, <<>>), n,
               El("div", 3, <<>>, <<>>), El("ul", 4, <<>>, <<>>),
               El("li", 5, NoiseItemText, <<>>),
               El("p", 2, ArticleText, <<>>)>>, 7, 3, 0)

\* <body><p>article<N>noise<p>noise</p></N> after</p></body>
NoiseInside(n) ==
    Labelled(<<El("html", 0, <<>>, <<>>), El("body", 1, <<>>, <<>>),
               El("p", 2, ArticleText, <<>>),
               [n EXCEPT !.parent = 3, !.tail = AfterNoiseText],
               El("blockquote", 4, NoiseParagraphText, <<>>)>>, 3, 4, 0)

\* the noise attribute sits on the root element, around the article
NoiseRoot(n) ==
    Labelled(<<[n EXCEPT !.tag = "html", !.parent = 0, !.text = <<>>],
               El("body", 1, <<>>, <<>>), El("p", 2, ArticleText, <<>>)>>, 3, 1, 0)

NoiseDocs ==
    {NoiseAfter(n) : n \in NoiseElements} \cup {NoiseBefore(n) : n \in NoiseElements}
    \cup {NoiseInside(n) : n \in NoiseElements}
    \cup {NoiseRoot(n) : n \in {m \in NoiseElements : m.tag = "div" /\ m.id # <<>>}}

\* <body><p>article</p><p>prefix <a href="x">anchor</a> suffix</p></body>, with
\* each inline tag and with the white space an author may leave around the link
InlineTags == {"a", "em", "strong", "span", "b", "i", "code"}
LinkHref == <<"h","t","t","p","s",":","/","/","l","i","n","k","s",".","e","x","a","m","p","l","e","/","x">>
AnchorText == <<"a","n","c","h","o","r">>
LinkPrefixes == {<<"p","r","e","f","i","x"," ">>, <<"\n"," "," "," "," ","p","r","e","f","i","x","\n"," "," "," "," ">>}
LinkSuffixes == {<<" ","s","u","f","f","i","x">>, <<"\n"," "," "," "," ","s","u","f","f","i","x","\n"," "," ">>}
LinkBlockText == <<"p","r","e","f","i","x"," ","a","n","c","h","o","r"," ","s","u","f","f","i","x">>

LinkDoc(tag, prefix, suffix) ==
    Labelled(<<El("html", 0, <<>>, <<>>), El("body", 1, <<>>, <<>>),
               El("p", 2, ArticleText, <<"\n">>), El("p", 2, prefix, <<"\n">>),
               [El(tag, 4, AnchorText, suffix) EXCEPT !.href = LinkHref]>>, 3, 0, 4)

\* <p>prefix <a href="x"><em>anchor</em></a> suffix</p>
NestedLinkDoc(tag, prefix, suffix) ==
    Labelled(<<El("html", 0, <<>>, <<>>), El("body", 1, <<>>, <<>>),
               El("p", 2, ArticleText, <<"\n">>), El("p", 2, prefix, <<"\n">>),
               [El("a", 4, <<>>, suffix) EXCEPT !.href = LinkHref],
               El(tag, 5, AnchorText, <<>>)>>, 3, 0, 4)

LinkDocs ==
    {LinkDoc(t, p, s) : t \in InlineTags, p \in LinkPrefixes, s \in LinkSuffixes}
    \cup {NestedLinkDoc(t, p, s) :
            t \in InlineTags \ {"a"}, p \in LinkPrefixes, s \in LinkSuffixes}

\* documents for extract_title: the meta elements of the head, the text of its
\* title elements, and the h1 elements of the body
Meta(property, content) ==
    [El("meta", 2, <<>>, <<>>) EXCEPT !.property = property, !.content = content]

OgChoices ==
    { <<>>,
      <<Meta("og:title", Some(<<" ","O","G"," ","T","i","t","l","e"," ","H","e","r","e"," ">>))>>,
      <<Meta("og:title", Some(<<>>))>>,
      <<Meta("og:title", Some(<<" ", " ">>))>>,
      <<Meta("og:title", Some(<<" ", " ">>)), Meta("og:title", Some(<<"S","e","c","o","n","d"," ","O","G"," ","T","i","t","l","e">>))>>,
      <<Meta("og:title", None), Meta("og:title", Some(<<" ","O","G"," ","T","i","t","l","e"," ","H","e","r","e"," ">>))>>,
      <<Meta("og:title", Some(<<"F","i","r","s","t"," ","O","G"," ","T","i","t","l","e">>)), Meta("og:title", Some(<<"S","e","c","o","n","d"," ","O","G"," ","T","i","t","l","e">>))>>,
      <<Meta("og:description", Some(<<"A"," ","d","e","s","c","r","i","p","t","i","o","n">>)), Meta("og:title", Some(<<" ","O","G"," ","T","i","t","l","e"," ","H","e","r","e"," ">>))>> }

TitleChoices ==
    { <<>>, <<<<>>>>, <<<<" ", "\n">>>>, <<<<"P","a","g","e"," ","T","i","t","l","e"," ","|"," ","S","i","t","e","N","a","m","e">>>>, <<<<" ","P","l","a","i","n"," ","T","i","t","l","e"," ">>>>, <<<<"W","e","l","l","-","k","n","o","w","n"," ","f","a","c","t","s"," ","-"," ","S","i","t","e">>>> }

H1Choices(body) ==
    { <<>>,
      <<El("h1", body, <<"M","a","i","n"," ","H","e","a","d","i","n","g"," ","T","e","x","t">>, <<>>)>>,
      <<El("h1", body, <<" ","M","a","i","n"," ">>, <<"\n">>), El("em", body + 1, <<"H","e","a","d","i","n","g">>, <<" ","T","e","x","t"," ">>)>>,
      <<El("h1", body, <<"M","a","i","n"," ","H","e","a","d","i","n","g"," ","T","e","x","t">>, <<"\n">>), El("h1", body, <<"S","e","c","o","n","d"," ","H","e","a","d","i","n","g">>, <<>>)>> }

TitleDoc(metas, titles, h1s) ==
    Labelled(<<El("html", 0, <<>>, <<>>), El("head", 1, <<>>, <<>>)>>
             \o metas
             \o [k \in 1..Len(titles) |-> El("title", 2, titles[k], <<>>)]
             \o <<El("body", 1, <<>>, <<>>)>>
             \o h1s, 0, 0, 0)

TitleDocs ==
    UNION {{TitleDoc(m, t, h) : h \in H1Choices(3 + Len(m) + Len(t))} :
              m \in OgChoices, t \in TitleChoices}

\* no document at hand
NoDoc == Labelled(<<>>, 0, 0, 0)

\* a text of n characters once trimmed and collapsed (n >= 3), written with
\* line breaks and runs of blanks around and inside it
Spaced(n) == <<" ", "\n", "a", "b", " ", "\n", "\t">> \o Filler(n - 3) \o <<" ", "\n">>
SpacedBlock(n) == <<"a", "b", " ">> \o Filler(n - 3)

\* the block lengths around MIN_BLOCK_LENGTH, and the tags tried: every content
\* tag and two tags that are not content tags
BlockLengths == {MIN_BLOCK_LENGTH - 1, MIN_BLOCK_LENGTH, MIN_BLOCK_LENGTH + 1}
BlockTags == CONTENT_TAGS \cup {"div", "span"}

\* <body><T> block of n characters </T><p>article</p></body>
BlockDoc(tag, n) ==
    Labelled(<<El("html", 0, <<>>, <<>>), El("body", 1, <<>>, <<>>),
               El(tag, 2, Spaced(n), <<"\n">>), El("p", 2, ArticleText, <<>>)>>, 0, 0, 0)

\* <body><p>article</p><O>lead <I>inner</I></O></body>: a content element
\* inside a content element
QuoteLead == <<"Q","u","o","t","e","d"," ","w","o","r","d","s",":"," ">>
QuoteInner == <<"c","l","e","a","n"," ","w","a","t","e","r"," ","f","o","r"," ","a","l","l">>
OuterTags == {"blockquote", "li", "td"}
InnerTags == {"p", "li"}
NestedDoc(outer, inner) ==
    Labelled(<<El("html", 0, <<>>, <<>>), El("body", 1, <<>>, <<>>),
               El("p", 2, ArticleText, <<>>), El(outer, 2, QuoteLead, <<>>),
               El(inner, 4, QuoteInner, <<>>)>>, 0, 0, 0)

BlockDocs ==
    {BlockDoc(t, n) : t \in BlockTags, n \in BlockLengths}
    \cup {NestedDoc(o, i) : o \in OuterTags, i \in InnerTags}

\* the lengths of the two paragraphs of a document whose joined body comes to
\* MIN_BODY_LENGTH - 1, MIN_BODY_LENGTH and MIN_BODY_LENGTH + 1 characters: one
\* paragraph alone (the second empty), two halves, a long paragraph with one of
\* just MIN_BLOCK_LENGTH characters, and a long one with one too short to count
Separator == <<"\n", "\n">>
SizePairs ==
    {<<MIN_BODY_LENGTH + d, 0>> : d \in {-1, 0, 1}}
    \cup {<<(MIN_BODY_LENGTH - Len(Separator)) \div 2 + d, (MIN_BODY_LENGTH - Len(Separator)) \div 2>> :
             d \in {-1, 0, 1}}
    \cup {<<MIN_BODY_LENGTH - Len(Separator) - MIN_BLOCK_LENGTH + d, MIN_BLOCK_LENGTH>> :
             d \in {-1, 0, 1}}
    \cup {<<MIN_BODY_LENGTH - Len(Separator) - MIN_BLOCK_LENGTH + d, MIN_BLOCK_LENGTH - 1>> :
             d \in {0, 1, 2}}

\* <body><p>a characters</p><p>b characters</p></body>
SizeDoc(a, b) ==
    Labelled(<<El("html", 0, <<>>, <<>>), El("body", 1, <<>>, <<>>),
               El("p", 2, Filler(a), <<"\n">>), El("p", 2, Filler(b), <<>>)>>, 0, 0, 0)

SizeDocs == {SizeDoc(q[1], q[2]) : q \in SizePairs}

\* the parse of <html><body><p>b</p></body></html> for a text b without markup
Wrap(b) ==
    <<El("html", 0, <<>>, <<>>), El("body", 1, <<>>, <<>>), El("p", 2, b, <<>>)>>

Docs == NoiseDocs \cup LinkDocs \cup TitleDocs \cup BlockDocs \cup SizeDocs

\* --------------------------------------------------- result.py: serialisation
\* the fields of the dataclass in the order they are declared, the optional
\* ones (str | None, int | None), and the field names as JSON writes them
FieldNames == <<"success", "url", "title", "body", "error", "fetch_method", "status_code", "content_length", "elapsed_ms">>
Fields == {FieldNames[i] : i \in 1..Len(FieldNames)}
OptionalFields == {"title", "body", "error", "fetch_method", "status_code"}
FieldChars ==
    [success |-> <<"s","u","c","c","e","s","s">>,
     url |-> <<"u","r","l">>,
     title |-> <<"t","i","t","l","e">>,
     body |-> <<"b","o","d","y">>,
     error |-> <<"e","r","r","o","r">>,
     fetch_method |-> <<"f","e","t","c","h","_","m","e","t","h","o","d">>,
     status_code |-> <<"s","t","a","t","u","s","_","c","o","d","e">>,
     content_length |-> <<"c","o","n","t","e","n","t","_","l","e","n","g","t","h">>,
     elapsed_ms |-> <<"e","l","a","p","s","e","d","_","m","s">>]

\* slip: a mapping without the fields that are None
to_dict_skip_none(r) ==
    [k \in {f \in Fields : f \notin OptionalFields \/ r[f] # None} |-> r[k]]

\* asdict(self): a new mapping from every field name to the field's value
to_dict(r) == [k \in Fields |-> r[k]]

\* ExtractionResult(**d): the generated __init__ takes the nine fields by
\* keyword, each required, and no other keyword
ExtractionResult(d) ==
    IF DOMAIN d = Fields THEN Return([k \in Fields |-> d[k]]) ELSE Raise("TypeError", "")

\* slip: the record is not frozen
__setattr___assigns(r, name, value) == [res |-> [r EXCEPT ![name] = value], exc |-> ""]

\* the __setattr__ of @dataclass(frozen=True): raises FrozenInstanceError (an
\* AttributeError) and sets nothing
__setattr__(r, name, value) == [res |-> r, exc |-> "FrozenInstanceError"]

\* json.dumps(..., ensure_ascii=False): an int in decimal
Digits == <<"0", "1", "2", "3", "4", "5", "6", "7", "8", "9">>
RECURSIVE dumps_int(_)
dumps_int(n) ==
    IF n < 0 THEN <<"-">> \o dumps_int(-n)
    ELSE IF n < 10 THEN <<Digits[n + 1]>>
    ELSE dumps_int(n \div 10) \o <<Digits[(n % 10) + 1]>>

\* a str between quotes: the quote, the backslash and the control characters
\* escaped, every other character, non-ASCII included, as it is
json_escape(c) ==
    CASE c = "\"" -> <<"\\", "\"">>
      [] c = "\\" -> <<"\\", "\\">>
      [] c = "\n" -> <<"\\", "n">>
      [] c = "\r" -> <<"\\", "r">>
      [] c = "\t" -> <<"\\", "t">>
      [] OTHER -> <<c>>
dumps_str(str) == <<"\"">> \o flatten([i \in 1..Len(str) |-> json_escape(str[i])]) \o <<"\"">>

\* the value of field k: true / false, null for None, an int or a str
dumps_value(k, v) ==
    IF k = "success" THEN (IF v THEN <<"t","r","u","e">> ELSE <<"f","a","l","s","e">>)
    ELSE IF k \in {"content_length", "elapsed_ms"} THEN dumps_int(v)
    ELSE IF k = "url" THEN dumps_str(v)
    ELSE IF v = None THEN <<"n","u","l","l">>
    ELSE IF k = "status_code" THEN dumps_int(Get(v))
    ELSE dumps_str(Get(v))

\* the mapping's items in insertion order, with json's default separators
dumps(d) ==
    LET keys == SelectSeq(FieldNames, LAMBDA k : k \in DOMAIN d)
    IN  <<"{">> \o join(<<",", " ">>,
                        [i \in 1..Len(keys) |->
                            dumps_str(FieldChars[keys[i]]) \o <<":", " ">>
                            \o dumps_value(keys[i], d[keys[i]])])
        \o <<"}">>

\* json.dumps(self.to_dict(), ensure_ascii=False)
to_json(r) == dumps(to_dict(r))

\* json.loads of a str literal s, quotes included
loads_str(s) ==
    LET c == SubSeq(s, 2, Len(s) - 1)
        run(i) == CHOOSE k \in 0..(i - 1) :
                      /\ \A j \in (i - k)..(i - 1) : c[j] = "\\"
                      /\ (i - k = 1 \/ c[i - k - 1] # "\\")
        lead(i) == c[i] = "\\" /\ run(i) % 2 = 0
        escaped(i) == i > 1 /\ lead(i - 1)
        plain == SelectSeq([i \in 1..Len(c) |-> i], LAMBDA i : ~lead(i))
        char(i) == IF ~escaped(i) THEN c[i]
                   ELSE CASE c[i] = "n" -> "\n"
                          [] c[i] = "r" -> "\r"
                          [] c[i] = "t" -> "\t"
                          [] OTHER -> c[i]
    IN  [k \in 1..Len(plain) |-> char(plain[k])]

RECURSIVE loads_int(_)
loads_int(s) ==
    IF s[1] = "-" THEN 0 - loads_int(Tail(s))
    ELSE IF Len(s) = 1 THEN (CHOOSE d \in 0..9 : Digits[d + 1] = s[1])
    ELSE 10 * loads_int(SubSeq(s, 1, Len(s) - 1))
         + (CHOOSE d \in 0..9 : Digits[d + 1] = s[Len(s)])

\* json.loads of one value, with the Python type it comes out as
loads_value(s) ==
    IF s[1] = "\"" THEN [type |-> "str", str |-> loads_str(s), int |-> 0, bool |-> FALSE]
    ELSE IF s = <<"n","u","l","l">> THEN [type |-> "None", str |-> <<>>, int |-> 0, bool |-> FALSE]
    ELSE IF s = <<"t","r","u","e">> THEN [type |-> "bool", str |-> <<>>, int |-> 0, bool |-> TRUE]
    ELSE IF s = <<"f","a","l","s","e">> THEN [type |-> "bool", str |-> <<>>, int |-> 0, bool |-> FALSE]
    ELSE [type |-> "int", str |-> <<>>, int |-> loads_int(s), bool |-> FALSE]

\* the value as a field of the record holds it: None or the value for an
\* optional field, the value itself otherwise
field_value(k, pv) ==
    LET v == CASE pv.type = "str" -> pv.str
               [] pv.type = "int" -> pv.int
               [] pv.type = "bool" -> pv.bool
               [] OTHER -> None
    IN  IF k \in OptionalFields /\ pv.type # "None" THEN Some(v) ELSE v

\* json.loads of an object of scalar values: the text is cut at the commas
\* and colons outside str literals
loads(text) ==
    LET run(i) == CHOOSE k \in 0..(i - 1) :
                      /\ \A j \in (i - k)..(i - 1) : text[j] = "\\"
                      /\ (i - k = 1 \/ text[i - k - 1] # "\\")
        quotes == {i \in 1..Len(text) : text[i] = "\"" /\ run(i) % 2 = 0}
        outside(i) == i \notin quotes /\ Cardinality({q \in quotes : q < i}) % 2 = 0
        cuts == <<1>> \o SelectSeq([i \in 1..Len(text) |-> i],
                                   LAMBDA i : text[i] = "," /\ outside(i))
                \o <<Len(text)>>
        colon(m) == CHOOSE i \in (cuts[m] + 1)..(cuts[m + 1] - 1) :
                        /\ text[i] = ":" /\ outside(i)
                        /\ \A j \in (cuts[m] + 1)..(i - 1) : ~(text[j] = ":" /\ outside(j))
        key(m) == Str(loads_str(strip(SubSeq(text, cuts[m] + 1, colon(m) - 1))))
        value(m) == loads_value(strip(SubSeq(text, colon(m) + 1, cuts[m + 1] - 1)))
        members == 1..(Len(cuts) - 1)
    IN  [k \in {key(m) : m \in members} |->
            field_value(k, value(CHOOSE m \in members : key(m) = k))]

\* ------------------------------------------------------- result.py: records
\* the texts put into records: plain, with quotes, backslashes (before a quote,
\* at the end), a line feed, a tab, a non-ASCII letter, nothing, and text that
\* reads like JSON
ResultTexts == {
    <<"T","e","s","t">>,
    <<"s","a","y"," ","\"","h","i","\"">>,
    <<"a","\\","b">>,
    <<"e","n","d","\\">>,
    <<"q","\\","\"">>,
    <<"l","i","n","e","\n","b","r","e","a","k">>,
    <<"c","a","f","é">>,
    <<>>,
    <<"x","\"",","," ","\"","y","\"",":"," ","n","u","l","l">>,
    <<"{","1",","," ","2","}">>,
    <<"t","a","b","\t","h","e","r","e">>}
PlainUrl == <<"h","t","t","p","s",":","/","/","e","x","a","m","p","l","e",".","c","o","m">>
QueryUrl == <<"h","t","t","p","s",":","/","/","e","x","a","m","p","l","e",".","c","o","m","/","?","q","=","\"","a",","," ","b","\"","&","r","=","\\">>
MethodHttpx == <<"h","t","t","p","x">>
MethodPlaywright == <<"p","l","a","y","w","r","i","g","h","t">>
BodyText == <<"B","o","d","y"," ","t","e","x","t"," ","h","e","r","e">>
TimeoutText == <<"T","i","m","e","o","u","t">>
LongElapsed == 30000

\* the records tried, built by the two constructors
Results ==
    {make_success(PlainUrl, t, BodyText, MethodHttpx, Some(200), 100) :
        t \in {None} \cup {Some(x) : x \in ResultTexts}}
    \cup {make_success(QueryUrl, None, b, MethodPlaywright, c, e) :
             b \in ResultTexts, c \in {None, Some(200)}, e \in {0, LongElapsed}}
    \cup {make_failure(PlainUrl, x, Some(MethodHttpx), Some(404), 1) : x \in ResultTexts}
    \cup {make_failure(u, TimeoutText, m, c, e) :
             u \in {PlainUrl, QueryUrl}, m \in {None, Some(MethodPlaywright)},
             c \in {None, Some(599)}, e \in {0, LongElapsed}}

\* the values an assignment tries to put into a field
NewValues ==
    [success |-> {TRUE, FALSE}, url |-> {QueryUrl}, title |-> {None, Some(BodyText)},
     body |-> {None, Some(<<>>)}, error |-> {None, Some(TimeoutText)},
     fetch_method |-> {None}, status_code |-> {None, Some(200)},
     content_length |-> {0, 1}, elapsed_ms |-> {LongElapsed}]

NoResult == make_failure(<<>>, <<>>, None, None, 0)

\* ------------------------------------- fetch_playwright.py: cookie consent
COOKIE_CONSENT_SELECTORS == <<
    "button:has-text(\"ACCEPT\")",
    "button:has-text(\"Accept All\")",
    "button:has-text(\"Accept all\")",
    "button:has-text(\"Accept\")",
    "#onetrust-accept-btn-handler",
    ".accept-cookies",
    "button:has-text(\"I agree\")",
    "button:has-text(\"Allow all\")",
    "button:has-text(\"OK\")",
    "button:has-text(\"Got it\")",
    "button:has-text(\"Agree\")",
    "[data-testid=\"cookie-accept\"]",
    "button:has-text(\"Continue\")">>

\* _dismiss_cookie_consent at its entry: the selector the loop is at, the
\* selectors probed and clicked so far
NewConsent == [pc |-> "probe", selector |-> 1, clicked |-> <<>>, probed |-> <<>>]

\* how an await of the loop body ends: on its normal path, with an exception
\* (a playwright TimeoutError is one), or with the task cancelled
ProbeEnds == {"visible", "hidden", "raise", "cancel"}
StepEnds == {"ok", "raise", "cancel"}

\* the for loop moving on: after "except Exception: continue" and after a
\* selector that is not visible; past the last selector the function returns
next_selector(c) ==
    IF c.selector < Len(COOKIE_CONSENT_SELECTORS)
    THEN [c EXCEPT !.pc = "probe", !.selector = @ + 1]
    ELSE [c EXCEPT !.pc = "done"]

\* await button.is_visible(timeout=500)
is_visible(c, o) ==
    LET p == [c EXCEPT !.probed = Append(@, c.selector)]
    IN  CASE o = "visible" -> [p EXCEPT !.pc = "click"]
          [] o = "cancel" -> [p EXCEPT !.pc = "cancelled"]
          [] OTHER -> next_selector(p)

\* await button.click()
click(c, o) ==
    CASE o = "ok" -> [c EXCEPT !.pc = "wait", !.clicked = Append(@, c.selector)]
      [] o = "cancel" -> [c EXCEPT !.pc = "cancelled"]
      [] OTHER -> next_selector(c)

\* await page.wait_for_load_state("networkidle", timeout=5000), then return
wait_for_load_state(c, o) ==
    CASE o = "ok" -> [c EXCEPT !.pc = "done"]
      [] o = "cancel" -> [c EXCEPT !.pc = "cancelled"]
      [] OTHER -> next_selector(c)

\* ------------------------------- fetch_playwright.py: the steps on one page
\* _fetch_page after ctx.new_page(): pc is the await it is suspended in; did
\* lists what it has done so far: "goto" once page.goto returned (the document
\* is DOM-ready), "networkidle", "content" once that await was started,
\* "dismiss" once _dismiss_cookie_consent was called, "extract" once
\* _extract_from_html was called; swallowed: the wait for network idle raised;
\* leaving: what is travelling up the finally blocks; out: what the tier returned
NewPage(js) ==
    [js_enabled |-> js, pc |-> "goto", did |-> <<>>, status_code |-> None,
     swallowed |-> FALSE, cancelled |-> FALSE, leaving |-> None, out |-> None]

\* no page is looked at
NoPage == [NewPage(FALSE) EXCEPT !.pc = "none"]

method_of(p) == IF p.js_enabled THEN "playwright" ELSE "playwright-nojs"

\* how page.goto ends: with a response or none, an exception, a cancellation
GotoEnds ==
    [end : {"ok"}, status : {None, Some(200), Some(HttpErrorStatus), Some(404)}]
    \cup [end : {"raise", "cancel"}, status : {None}]

\* what page.content() gives and what the extractors make of it
PageContents ==
    {o \in PageOutcomes :
        /\ o.kind = "page" /\ o.status = Some(200) /\ o.title = None
        /\ o.traf \in {None, Some(ShortBody), Some(ExactBody)}
        /\ o.lxml \in {None, Some(ExactBody)}}
ContentEnds == [end : {"ok"}, page : PageContents]
               \cup [end : {"raise", "cancel"}, page : {CHOOSE o \in PageContents : TRUE}]

\* a return statement or an exception leaves the inner try: finally comes next
leave_try(p, v) ==
    [p EXCEPT !.pc = "ctx_close", !.leaving = Some(v),
              !.cancelled = @ \/ (v.raise /\ v.exc = "CancelledError")]

\* slip: a status of exactly 400 is let through
status_check_above(p, u) ==
    IF p.status_code # None /\ Get(p.status_code) # 0
       /\ Get(p.status_code) > HttpErrorStatus
    THEN leave_try(p, Return(make_failure(u, "HTTP " \o ToString(Get(p.status_code)),
                                          Some(method_of(p)), p.status_code, 0)))
    ELSE IF p.js_enabled
    THEN [p EXCEPT !.pc = "dismiss", !.did = Append(@, "dismiss")]
    ELSE [p EXCEPT !.pc = "content"]

\* if status_code and status_code >= 400: return make_failure(...);
\* if js_enabled: await _dismiss_cookie_consent(page)
status_check(p, u) ==
    IF p.status_code # None /\ Get(p.status_code) # 0
       /\ Get(p.status_code) >= HttpErrorStatus
    THEN leave_try(p, Return(make_failure(u, "HTTP " \o ToString(Get(p.status_code)),
                                          Some(method_of(p)), p.status_code, 0)))
    ELSE IF p.js_enabled
    THEN [p EXCEPT !.pc = "dismiss", !.did = Append(@, "dismiss")]
    ELSE [p EXCEPT !.pc = "content"]

\* slip: the wait for network idle is awaited in both modes
goto_waits_in_both_modes(p, u, o) ==
    CASE o.end = "raise" ->
             leave_try(p, Raise("TimeoutError", "Timeout 30000ms exceeded."))
      [] o.end = "cancel" -> leave_try(p, Raise("CancelledError", ""))
      [] OTHER -> [p EXCEPT !.did = Append(@, "goto"), !.status_code = o.status,
                            !.pc = "networkidle"]

\* response = await page.goto(url, wait_until="domcontentloaded", ...);
\* status_code = response.status if response else None
goto(p, u, o) ==
    CASE o.end = "raise" ->
             leave_try(p, Raise("TimeoutError", "Timeout 30000ms exceeded."))
      [] o.end = "cancel" -> leave_try(p, Raise("CancelledError", ""))
      [] OTHER ->
             LET q == [p EXCEPT !.did = Append(@, "goto"), !.status_code = o.status]
             IN  IF p.js_enabled THEN [q EXCEPT !.pc = "networkidle"]
                 ELSE status_check(q, u)

\* slip: no try around the wait for network idle
networkidle_raises(p, u, o) ==
    LET q == [p EXCEPT !.did = Append(@, "networkidle")]
    IN  CASE o = "cancel" -> leave_try(q, Raise("CancelledError", ""))
          [] o = "raise" ->
                 leave_try(q, Raise("TimeoutError", "Timeout 10000ms exceeded."))
          [] OTHER -> status_check(q, u)

\* try: await page.wait_for_load_state("networkidle", timeout=10000)
\* except Exception: pass
networkidle(p, u, o) ==
    LET q == [p EXCEPT !.did = Append(@, "networkidle"), !.swallowed = (o = "raise")]
    IN  IF o = "cancel" THEN leave_try(q, Raise("CancelledError", ""))
        ELSE status_check(q, u)

\* _dismiss_cookie_consent has returned, or the task was cancelled in it
dismissed(p, c) ==
    CASE c.pc = "done" -> [p EXCEPT !.pc = "content"]
      [] c.pc = "cancelled" -> leave_try(p, Raise("CancelledError", ""))
      [] OTHER -> p

\* html = await page.content(); return _extract_from_html(...)
content(p, u, o) ==
    LET q == [p EXCEPT !.did = Append(@, "content")]
    IN  CASE o.end = "raise" -> leave_try(q, Raise("Error", "Target closed"))
          [] o.end = "cancel" -> leave_try(q, Raise("CancelledError", ""))
          [] OTHER ->
                 leave_try([q EXCEPT !.did = Append(@, "extract")],
                           pw_extract_from_html(u, o.page, p.status_code, 0, method_of(p)))

\* finally: await ctx.close(), finally: await browser.close(): an exception
\* of the close replaces what was travelling
close(p, o, then) ==
    [p EXCEPT !.pc = then,
              !.cancelled = @ \/ o = "cancel",
              !.leaving = CASE o = "raise" -> Some(Raise("Error", "Target closed"))
                            [] o = "cancel" -> Some(Raise("CancelledError", ""))
                            [] OTHER -> @]

\* fetch_playwright and fetch_playwright_nojs: return await _fetch_page(...),
\* except Exception as err: return make_failure(...)
tier_return(p, u) ==
    LET r == Get(p.leaving)
    IN  IF ~r.raise THEN [p EXCEPT !.pc = "returned", !.out = Some(r.value)]
        ELSE IF r.exc = "CancelledError" THEN [p EXCEPT !.pc = "cancelled"]
        ELSE [p EXCEPT !.pc = "returned",
                       !.out = Some(make_failure(u, ErrText(r), Some(method_of(p)),
                                                 None, 0))]

\* ------------------------------------------------------ the fetchers' imports
\* the names content.py defines at module level
ContentNames ==
    {"NOISE_TAGS", "NOISE_CLASSES", "NOISE_IDS", "NOISE_ROLES", "CONTENT_TAGS",
     "MIN_BLOCK_LENGTH", "MIN_BODY_LENGTH", "TITLE_SUFFIX_RE", "parse_html",
     "extract_title", "_clean_title_suffix", "extract_text_content", "_remove_noise",
     "_is_noise_element", "_collect_blocks"}

\* the names result.py defines at module level
ResultNames == {"ExtractionResult", "make_success", "make_failure"}

\* from daz_web_extract.content import ... and from daz_web_extract.result
\* import ... in each fetcher
FetchHttpImports ==
    [content |-> {"parse_html", "extract_title", "extract_body_text"},
     result |-> {"ExtractionResult", "make_success", "make_failure"}]
FetchTrafilaturaImports ==
    [content |-> {}, result |-> {"ExtractionResult", "make_success", "make_failure"}]
FetchPlaywrightImports ==
    [content |-> {"parse_html", "extract_title", "extract_text_content"},
     result |-> {"ExtractionResult", "make_success", "make_failure"}]

\* a call of a fetcher by a caller that imports the fetcher's module first: a
\* from-import of a name the other module does not define raises ImportError
\* when the module is loaded, and the fetcher is never called
imported(imports, call) ==
    IF imports.content \subseteq ContentNames /\ imports.result \subseteq ResultNames
    THEN call
    ELSE Raise("ImportError", "cannot import name")

\* ----------------------------------------------------------------------- state
VARIABLES
    url,            \* extract's argument url
    max_tier,       \* extract's argument max_tier
    pc,             \* where the call is: the tier it awaits next, "done" or "raised"
    now,            \* the monotonic clock, in ticks
    overall_start,  \* extract's start
    ran,            \* the tiers invoked so far, in order
    tier1_result,   \* the fetchers' results, None before they return
    tier2_result,
    tier3_result,
    tier4_result,
    returned,       \* what extract returned, None while it runs
    ops,            \* the browser operation of each concurrent call
    _value,         \* _browser_semaphore: its free permits
    _waiters,       \* _browser_semaphore: the calls queueing, first come first
    doc,            \* the parsed document handed to content.py, with its labels
    tree,           \* the tree extract_text_content works on and changes
    body_out,       \* Some(what extract_text_content returned), None before
    title_out,      \* Some(what extract_title returned), None before
    body_again,     \* Some(what extracting the wrapped body returned), None before
    made,           \* the ExtractionResult as its constructor made it
    rec,            \* the ExtractionResult object's fields now
    dict_out,       \* Some(rec.to_dict()), None before
    from_dict,      \* Some(how ExtractionResult(**dict_out) ended), None before
    json_out,       \* Some(rec.to_json()), None before
    from_json,      \* Some(how ExtractionResult(**json.loads(json_out)) ended), None before
    set_out,        \* Some(the field an assignment named and how it ended), None before
    passed,         \* Some(what extract returned for rec as tier 1's result), None before
    consent,        \* _dismiss_cookie_consent on one page: where its loop is
    tier_in,        \* one fetcher call: the tier, the url and what the outside world does
    tier_out,       \* Some(how the fetcher call ended), None before
    pg,             \* one page in _fetch_page: the await it is at, what it did so far
    futures,        \* fetch_trafilatura: each call's job in _executor and its caller
    _work_queue     \* _executor: the jobs submitted and not yet taken by a worker

vars == <<url, max_tier, pc, now, overall_start, ran, tier1_result, tier2_result,
          tier3_result, tier4_result, returned>>

browser_vars == <<ops, _value, _waiters>>

content_vars == <<doc, tree, body_out, title_out, body_again>>

fetch_vars == <<tier_in, tier_out>>

page_vars == <<pg>>

pool_vars == <<futures, _work_queue>>

result_vars == <<made, rec, dict_out, from_dict, json_out, from_json, set_out, passed>>

\* no fetcher call is looked at
NoCall == [tier |-> 0]

\* a tier attempt is instantaneous or takes the longest time
Durations == {0, MaxDur}

\* max_tier values tried: the code compares max_tier with 2, 3 and 4 only
MaxTiers == 0..5

Init ==
    /\ url \in Urls
    /\ max_tier \in MaxTiers
    /\ pc = "tier1"
    /\ now = 0
    /\ overall_start = 0
    /\ ran = <<>>
    /\ tier1_result = None
    /\ tier2_result = None
    /\ tier3_result = None
    /\ tier4_result = None
    /\ returned = None
    /\ ops = [c \in Calls |-> NewOp]
    /\ _value = BrowserPermits
    /\ _waiters = <<>>
    /\ doc = NoDoc
    /\ tree = <<>>
    /\ body_out = None
    /\ title_out = None
    /\ body_again = None
    /\ made = NoResult
    /\ rec = NoResult
    /\ dict_out = None
    /\ from_dict = None
    /\ json_out = None
    /\ from_json = None
    /\ set_out = None
    /\ passed = None
    /\ consent = NewConsent
    /\ tier_in = NoCall
    /\ tier_out = None
    /\ pg = NoPage
    /\ futures = <<>>
    /\ _work_queue = <<>>

\* an exception leaves extract: nothing is returned
Propagate ==
    /\ pc' = "raised"
    /\ returned' = None

\* tier1_result = await fetch_http(url) and the code up to the next await
Tier1 ==
    /\ pc = "tier1"
    /\ \E o \in HttpOutcomes, d \in Durations :
         LET r == fetch_http(url, now, now + d, o)
             next == after_tier1(r.value, max_tier)
         IN  /\ now' = now + d
             /\ ran' = Append(ran, 1)
             /\ IF r.raise
                THEN Propagate /\ UNCHANGED tier1_result
                ELSE /\ tier1_result' = Some(r.value)
                     /\ pc' = IF next = "return" THEN "done" ELSE next
                     /\ returned' = IF next = "return" THEN Some(r.value) ELSE None
    /\ UNCHANGED <<url, max_tier, overall_start, tier2_result, tier3_result, tier4_result>>
    /\ UNCHANGED <<browser_vars, content_vars, result_vars, consent, fetch_vars, page_vars, pool_vars>>

\* tier2_result = await fetch_trafilatura(url) and the code up to the next await
Tier2 ==
    /\ pc = "tier2"
    /\ \E o \in TrafOutcomes, d \in Durations :
         LET r == fetch_trafilatura(url, now, now + d, o)
             next == after_tier2(r.value, max_tier)
         IN  /\ now' = now + d
             /\ ran' = Append(ran, 2)
             /\ IF r.raise
                THEN Propagate /\ UNCHANGED tier2_result
                ELSE /\ tier2_result' = Some(r.value)
                     /\ pc' = IF next = "return" THEN "done" ELSE next
                     /\ returned' = IF next = "return" THEN Some(r.value) ELSE None
    /\ UNCHANGED <<url, max_tier, overall_start, tier1_result, tier3_result, tier4_result>>
    /\ UNCHANGED <<browser_vars, content_vars, result_vars, consent, fetch_vars, page_vars, pool_vars>>

\* tier3_result = await fetch_playwright_nojs(url) and the code up to the next await
Tier3 ==
    /\ pc = "tier3"
    /\ \E o \in PageOutcomes, d \in Durations :
         LET r == fetch_playwright_nojs(url, now, now + d, o)
             next == after_tier3(r.value, max_tier)
         IN  /\ now' = now + d
             /\ ran' = Append(ran, 3)
             /\ IF r.raise
                THEN Propagate /\ UNCHANGED tier3_result
                ELSE /\ tier3_result' = Some(r.value)
                     /\ pc' = IF next = "return" THEN "done" ELSE next
                     /\ returned' = IF next = "return" THEN Some(r.value) ELSE None
    /\ UNCHANGED <<url, max_tier, overall_start, tier1_result, tier2_result, tier4_result>>
    /\ UNCHANGED <<browser_vars, content_vars, result_vars, consent, fetch_vars, page_vars, pool_vars>>

\* tier4_result = await fetch_playwright(url) and the return that follows
Tier4 ==
    /\ pc = "tier4"
    /\ \E o \in PageOutcomes, d \in Durations :
         LET r == fetch_playwright(url, now, now + d, o)
         IN  /\ now' = now + d
             /\ ran' = Append(ran, 4)
             /\ IF r.raise
                THEN Propagate /\ UNCHANGED tier4_result
                ELSE /\ tier4_result' = Some(r.value)
                     /\ pc' = "done"
                     /\ returned' = Some(after_tier4(url, r.value, overall_start, now + d))
    /\ UNCHANGED <<url, max_tier, overall_start, tier1_result, tier2_result, tier3_result>>
    /\ UNCHANGED <<browser_vars, content_vars, result_vars, consent, fetch_vars, page_vars, pool_vars>>

Next == Tier1 \/ Tier2 \/ Tier3 \/ Tier4

Spec == Init /\ [][Next]_<<vars, browser_vars, content_vars, result_vars, consent, fetch_vars, page_vars, pool_vars>>

\* ---------------------------------------------------------------- properties
Done == pc = "done"
Ret == Get(returned)
T1 == Get(tier1_result)
T2 == Get(tier2_result)
T3 == Get(tier3_result)
T4 == Get(tier4_result)

\* every result a tier fetcher or extract has produced so far
ResultsSeen == tier1_result \cup tier2_result \cup tier3_result \cup tier4_result \cup returned

\* the text holds one of the JS-required phrases, whatever its case
HasJsPhrase(b) ==
    \E k \in 1..Len(_JS_REQUIRED_PHRASES) : Contains(lower(b), _JS_REQUIRED_PHRASES[k])

ElapsedOf(o) == IF o = None THEN 0 ELSE Get(o).elapsed_ms

\* sum of the elapsed times of the tiers that ran
SumTierElapsed ==
    ElapsedOf(tier1_result) + ElapsedOf(tier2_result) + ElapsedOf(tier3_result)
    + ElapsedOf(tier4_result)

C2_SuccessShape ==
    \A r \in ResultsSeen :
        /\ r.success <=> (r.body # None /\ Len(Get(r.body)) >= 100)
        /\ r.success => (r.error = None /\ r.content_length = Len(Get(r.body)))

\* extract returned a success whose body has exactly 100 characters, after a
\* tier failed on a body one character short
C2_Witness ==
    /\ Done /\ Ret.success /\ Ret.content_length = 100 /\ Len(Get(Ret.body)) = 100
    /\ tier1_result # None /\ T1.error = Some("Body too short")

\* C3: a result returned by extract with success false has a null body, a null
\* title, content_length 0 and a non-null error.
C3_FailureShape ==
    (Done /\ ~Ret.success) =>
        /\ Ret.body = None /\ Ret.title = None
        /\ Ret.content_length = 0 /\ Ret.error # None

\* every tier failed and extract returned the synthesised failure
C3_Witness ==
    /\ Done /\ ~Ret.success /\ ran = <<1, 2, 3, 4>>
    /\ Ret.error = Some("All tiers failed: Body too short")

C5_AsStated ==
    (tier1_result # None /\ ~T1.success /\ T1.status_code # None
     /\ Get(T1.status_code) \in (400..599) \ {403, 429})
    => \A i \in 1..Len(ran) : ran[i] # 2

\* C5: whenever tier 1 fails with a status of the skip set and max_tier is not
\* 2, tier 2 is never invoked in that call (with max_tier = 2 it is attempted).
C5_SkipTier2 ==
    (tier1_result # None /\ ~T1.success /\ T1.status_code # None
     /\ Get(T1.status_code) \in (400..599) \ {403, 429} /\ max_tier # 2)
    => \A i \in 1..Len(ran) : ran[i] # 2

\* tier 1 answered 404 and the call went on to the browser tiers past tier 2
C5_Witness ==
    /\ Done /\ T1.status_code = Some(404) /\ ran = <<1, 3, 4>>

\* C6: with max_tier >= 2, when tier 1 fails with status 403 or 429, with no
\* status, or with a status outside the skip set, tier 2 is the next tier
\* invoked, and a browser tier is reached only after tier 2 has failed.
C6_Tier2Next ==
    (tier1_result # None /\ ~T1.success /\ max_tier >= 2
     /\ (T1.status_code = None \/ Get(T1.status_code) \in {403, 429}
         \/ Get(T1.status_code) \notin 400..599))
    => /\ pc = "tier2" \/ (Len(ran) >= 2 /\ ran[2] = 2)
       /\ (pc \in {"tier3", "tier4"} \/ \E i \in 1..Len(ran) : ran[i] >= 3)
          => (tier2_result # None /\ ~T2.success)

\* tier 1 answered 403, tier 2 ran next and failed, and tier 3 was reached
C6_Witness ==
    /\ Len(ran) >= 3 /\ SubSeq(ran, 1, 3) = <<1, 2, 3>>
    /\ T1.status_code = Some(403) /\ ~T2.success

\* C7 as stated: whenever tier 3 produces a body holding a JS-required phrase,
\* the result extract returns carries the tier 4 tag.
C7_AsStated ==
    (Done /\ tier3_result # None /\ T3.success /\ HasJsPhrase(Get(T3.body)))
    => Ret.fetch_method = Some("playwright")

\* C7: whenever tier 3 produces a body holding a JS-required phrase and
\* max_tier >= 4, the result extract returns carries the tier 4 tag, never the
\* tier 3 tag (with max_tier = 3 the tier 3 result is returned).
C7_JsEscalates ==
    (Done /\ tier3_result # None /\ T3.success /\ HasJsPhrase(Get(T3.body))
     /\ max_tier >= 4)
    => Ret.fetch_method = Some("playwright")

\* tier 3 succeeded on a mixed-case JS notice and tier 4's result was returned
C7_Witness ==
    /\ Done /\ tier3_result # None /\ T3.success /\ Get(T3.body) = JsBody /\ max_tier = 4
    /\ Ret.success /\ Ret.fetch_method = Some("playwright")

\* C8: with max_tier = 1 extract runs tier 1 alone and returns its result
\* unchanged, success or failure, with the tier 1 tag.
C8_MaxTier1 ==
    (max_tier = 1) =>
        /\ pc \in {"tier1", "done"}
        /\ Done => /\ ran = <<1>>
                   /\ returned = tier1_result
                   /\ Ret.fetch_method = Some("httpx")

\* with max_tier = 1 tier 1 failed on a skip-set status and that failure was returned
C8_Witness ==
    /\ Done /\ max_tier = 1 /\ ~Ret.success /\ Ret.status_code = Some(404)
    /\ Ret.error = Some("HTTP 404")

\* C9: when tier 4 runs and fails, extract returns a failure with the tier 4
\* tag, the tier 4 result's status_code and the error "All tiers failed: "
\* followed by the tier 4 result's error.
C9_TerminalFailure ==
    (Done /\ tier4_result # None /\ ~T4.success) =>
        /\ ~Ret.success
        /\ Ret.fetch_method = Some("playwright")
        /\ Ret.status_code = T4.status_code
        /\ Ret.error = Some("All tiers failed: " \o Get(T4.error))

\* tier 3 failed on a short body, tier 4 on HTTP 404: the failure returned
\* reports tier 4's error and status
C9_Witness ==
    /\ Done /\ ran = <<1, 2, 3, 4>> /\ T3.error = Some("Body too short") /\ T4.error = Some("HTTP 404")
    /\ Ret.error = Some("All tiers failed: HTTP 404") /\ Ret.status_code = Some(404)

\* C10: the elapsed_ms of every result extract returns is at least the sum of
\* the elapsed times of the tiers that ran in the call.
C10_ElapsedCoversTiers == Done => Ret.elapsed_ms >= SumTierElapsed

\* the tag each tier's fetcher puts in fetch_method
CodeTag(i) ==
    CASE i = 1 -> "httpx" [] i = 2 -> "trafilatura"
      [] i = 3 -> "playwright-nojs" [] i = 4 -> "playwright"

\* the result of tier i, None before it returns
TierResult(i) ==
    CASE i = 1 -> tier1_result [] i = 2 -> tier2_result
      [] i = 3 -> tier3_result [] i = 4 -> tier4_result

C15_LastTierTag ==
    Done => /\ Ret.fetch_method # None
            /\ Ret.fetch_method = Some(CodeTag(ran[Len(ran)]))

\* tier 2 was skipped, tier 3 failed and tier 4 failed: the synthesised failure
\* names tier 4
C15_Witness ==
    /\ Done /\ ran = <<1, 3, 4>> /\ ~T3.success /\ ~T4.success
    /\ Ret.fetch_method = Some("playwright")

\* C16: every result a tier produces or extract returns, success or failure,
\* the synthesised failure included, carries the url argument of the call.
C16_UrlEchoed == \A r \in ResultsSeen : r.url = url

\* tier 1 succeeded and its result carries the url of the call
C16_Witness ==
    /\ Done /\ ran = <<1>> /\ Ret.success /\ Ret.url = url

\* C17: tiers are invoked one at a time in strictly increasing index order,
\* each at most once, each only when every tier invoked before it has returned,
\* and none once extract has returned.
C17_Sequential ==
    [][ran' # ran =>
         /\ ~Done
         /\ Len(ran') = Len(ran) + 1
         /\ SubSeq(ran', 1, Len(ran)) = ran
         /\ \A i \in 1..Len(ran) : ran[i] < ran'[Len(ran')] /\ TierResult(ran[i]) # None
      ]_vars

\* the four tiers ran in order, tier 4 after a tier 3 success that asked for JS
C17_Witness ==
    /\ Done /\ ran = <<1, 2, 3, 4>> /\ T3.success /\ T4.success

\* --------------------------------------------- the browser tiers, concurrently
Op(c) == ops[c]

\* async with _browser_semaphore: take a free permit or queue for one
Acquire(c) ==
    /\ Op(c).pc = "idle"
    /\ IF locked(_value, _waiters)
       THEN /\ ops' = [ops EXCEPT ![c].pc = "acquire"]
            /\ _waiters' = Append(_waiters, c)
            /\ UNCHANGED _value
       ELSE /\ ops' = [ops EXCEPT ![c].pc = "launch", ![c].held = TRUE]
            /\ _value' = _value - 1
            /\ UNCHANGED _waiters
    /\ UNCHANGED <<vars, content_vars, result_vars, consent, fetch_vars, page_vars, pool_vars>>

\* a released permit goes to the call that has queued longest
Wake(c) ==
    /\ Op(c).pc = "acquire"
    /\ _waiters # <<>> /\ Head(_waiters) = c
    /\ _value > 0
    /\ ops' = [ops EXCEPT ![c].pc = "launch", ![c].held = TRUE]
    /\ _value' = _value - 1
    /\ _waiters' = Tail(_waiters)
    /\ UNCHANGED <<vars, content_vars, result_vars, consent, fetch_vars, page_vars, pool_vars>>

\* the task is cancelled while it queues: acquire() raises CancelledError and
\* the body of the async with never runs
CancelAcquire(c) ==
    /\ Op(c).pc = "acquire"
    /\ ops' = [ops EXCEPT ![c].pc = "done", ![c].pending = "cancel",
                          ![c].cancelled = TRUE]
    /\ _waiters' = SelectSeq(_waiters, LAMBDA w : w # c)
    /\ UNCHANGED <<_value, vars, content_vars, result_vars, consent, fetch_vars, page_vars, pool_vars>>

Launch(c) ==
    /\ Op(c).pc = "launch"
    /\ \E o \in ends(Op(c)) : ops' = [ops EXCEPT ![c] = launch(@, o)]
    /\ UNCHANGED <<_value, _waiters, vars, content_vars, result_vars, consent, fetch_vars, page_vars, pool_vars>>

NewContext(c) ==
    /\ Op(c).pc = "new_context"
    /\ \E o \in ends(Op(c)) : ops' = [ops EXCEPT ![c] = new_context(@, o)]
    /\ UNCHANGED <<_value, _waiters, vars, content_vars, result_vars, consent, fetch_vars, page_vars, pool_vars>>

Page(c) ==
    /\ Op(c).pc = "page"
    /\ \E o \in ends(Op(c)) : ops' = [ops EXCEPT ![c] = page(@, o)]
    /\ UNCHANGED <<_value, _waiters, vars, content_vars, result_vars, consent, fetch_vars, page_vars, pool_vars>>

CtxClose(c) ==
    /\ Op(c).pc = "ctx_close"
    /\ \E o \in ends(Op(c)) : ops' = [ops EXCEPT ![c] = ctx_close(@, o)]
    /\ UNCHANGED <<_value, _waiters, vars, content_vars, result_vars, consent, fetch_vars, page_vars, pool_vars>>

BrowserClose(c) ==
    /\ Op(c).pc = "browser_close"
    /\ \E o \in ends(Op(c)) : ops' = [ops EXCEPT ![c] = browser_close(@, o)]
    /\ UNCHANGED <<_value, _waiters, vars, content_vars, result_vars, consent, fetch_vars, page_vars, pool_vars>>

\* slip: the permit is not given back
Release_keeps_permit(c) ==
    /\ Op(c).pc = "stop"
    /\ \E o \in ends(Op(c)) : ops' = [ops EXCEPT ![c] = leave(@, o)]
    /\ UNCHANGED <<_value, _waiters, vars, content_vars, result_vars, consent, fetch_vars, page_vars, pool_vars>>

\* playwright stops, the except clause runs, the permit goes back
Release(c) ==
    /\ Op(c).pc = "stop"
    /\ \E o \in ends(Op(c)) : ops' = [ops EXCEPT ![c] = leave(@, o)]
    /\ _value' = _value + 1
    /\ UNCHANGED <<_waiters, vars, content_vars, result_vars, consent, fetch_vars, page_vars, pool_vars>>

NextBrowser ==
    \E c \in Calls :
        \/ Acquire(c) \/ Wake(c) \/ CancelAcquire(c)
        \/ Launch(c) \/ NewContext(c) \/ Page(c)
        \/ CtxClose(c) \/ BrowserClose(c) \/ Release(c)

InitBrowser == Init /\ max_tier = 4

SpecBrowser == InitBrowser /\ [][NextBrowser]_<<vars, browser_vars, content_vars, result_vars, consent, fetch_vars, page_vars, pool_vars>>

\* the operations between the call of launch() and the end of browser.close()
InFlight ==
    {c \in Calls :
        Op(c).pc \in {"launch", "new_context", "page", "ctx_close", "browser_close"}}

Holding == {c \in Calls : Op(c).held}

\* C11: whatever the number of concurrent calls, no more than BrowserPermits
\* browser operations, of both modes together, are between browser launch and
\* browser close, and the held permits plus the free permits are always
\* BrowserPermits.
C11_PermitPool ==
    /\ Cardinality(InFlight) <= BrowserPermits
    /\ InFlight \subseteq Holding
    /\ _value \in 0..BrowserPermits
    /\ Cardinality(Holding) + _value = BrowserPermits

\* the pool is exhausted by operations of both modes while another call queues
C11_Witness ==
    /\ Cardinality(InFlight) = BrowserPermits
    /\ \E c \in InFlight : js_enabled_of(c)
    /\ \E c \in InFlight : ~js_enabled_of(c)
    /\ _value = 0
    /\ _waiters # <<>>

\* the operation can take its next step: no exit path leaves it stranded
CanStep(c) ==
    ENABLED (Launch(c) \/ NewContext(c) \/ Page(c) \/ CtxClose(c)
             \/ BrowserClose(c) \/ Release(c))

\* C12: on every exit path of every browser operation, the permit is held
\* from before the launch, the context is closed before the browser is, and
\* the permit goes back only once the browser is closed, and always goes back.
C12_ExitPaths ==
    \A c \in Calls :
        /\ Op(c).pc \in {"launch", "new_context", "page", "ctx_close",
                         "browser_close", "stop"} <=> Op(c).held
        /\ Op(c).browser => Op(c).held
        /\ Op(c).ctx => Op(c).browser
        /\ Op(c).held => CanStep(c)
        /\ Op(c).pc = "done" => ~Op(c).held /\ ~Op(c).browser /\ ~Op(c).ctx

\* one operation has returned its result and given its permit back, another
\* has closed its context after an exception and is about to close the
\* browser, a third comes from a failed launch
C12_Witness ==
    \E a, b, c \in Calls :
        /\ Op(a).pc = "done" /\ Op(a).pending = "return" /\ ~Op(a).cancelled
        /\ Op(b).pc = "browser_close" /\ Op(b).pending = "raise"
        /\ Op(b).browser /\ ~Op(b).ctx /\ Op(b).held
        /\ Op(c).pc = "stop" /\ Op(c).pending = "raise" /\ Op(c).held
        /\ _value = BrowserPermits - 2

\* C13: a call cancelled while its browser tier queues for the permit or
\* holds it ends with the context and the browser closed, without the permit,
\* and with the cancellation travelling on to the caller, not with a result.
C13_CancelPropagates ==
    \A c \in Calls :
        Op(c).cancelled /\ Op(c).pc = "done"
            => /\ Op(c).pending = "cancel"
               /\ ~Op(c).held /\ ~Op(c).browser /\ ~Op(c).ctx

\* ------------------------------------------------------ content.py at work
\* title = extract_title(tree): fetch_http takes the title before the body,
\* from the same tree; the browser tiers parse the page again for the title
ExtractTitle ==
    /\ title_out = None
    /\ title_out' = Some(extract_title(IF body_out = None THEN tree ELSE doc.nodes))
    /\ UNCHANGED <<doc, tree, body_out, body_again, vars, browser_vars, result_vars, consent, fetch_vars, page_vars, pool_vars>>

\* body = extract_text_content(tree), which strips the noise from the tree
ExtractText ==
    /\ body_out = None
    /\ body_out' = Some(extract_text_content(tree))
    /\ tree' = _remove_noise(tree)
    /\ UNCHANGED <<doc, title_out, body_again, vars, browser_vars, result_vars, consent, fetch_vars, page_vars, pool_vars>>

\* extract_text_content(parse_html("<html><body><p>" + b + "</p></body></html>"))
\* for the body b a first extraction returned
ExtractAgain ==
    /\ body_out # None
    /\ Get(body_out) # None
    /\ body_again = None
    /\ body_again' = Some(extract_text_content(Wrap(Get(Get(body_out)))))
    /\ UNCHANGED <<doc, tree, body_out, title_out, vars, browser_vars, result_vars, consent, fetch_vars, page_vars, pool_vars>>

NextContent == ExtractTitle \/ ExtractText \/ ExtractAgain

\* tree = parse_html(html)
InitContent ==
    /\ doc \in Docs
    /\ tree = doc.nodes
    /\ body_out = None
    /\ title_out = None
    /\ body_again = None
    /\ made = NoResult
    /\ rec = NoResult
    /\ dict_out = None
    /\ from_dict = None
    /\ json_out = None
    /\ from_json = None
    /\ set_out = None
    /\ passed = None
    /\ consent = NewConsent
    /\ tier_in = NoCall
    /\ tier_out = None
    /\ pg = NoPage
    /\ futures = <<>>
    /\ _work_queue = <<>>
    /\ url \in Urls
    /\ max_tier = 1
    /\ pc = "tier1"
    /\ now = 0
    /\ overall_start = 0
    /\ ran = <<>>
    /\ tier1_result = None
    /\ tier2_result = None
    /\ tier3_result = None
    /\ tier4_result = None
    /\ returned = None
    /\ ops = [c \in Calls |-> NewOp]
    /\ _value = BrowserPermits
    /\ _waiters = <<>>

SpecContent == InitContent /\ [][NextContent]_<<vars, browser_vars, content_vars, result_vars, consent, fetch_vars, page_vars, pool_vars>>

\* element i lies in the subtree of element r
RECURSIVE under(_, _, _)
under(nodes, i, r) == i = r \/ (nodes[i].parent # 0 /\ under(nodes, nodes[i].parent, r))

\* the texts inside the noise subtree of a document, as a block would show them
NoiseTexts(d) ==
    LET inside == {i \in 1..Len(d.nodes) : under(d.nodes, i, d.noise)}
    IN  ({collapse_spaces(strip(d.nodes[i].text)) : i \in inside}
         \cup {collapse_spaces(strip(d.nodes[i].tail)) : i \in inside \ {d.noise}})
        \ {<<>>}

\* C18: for every noise tag, class token (in any case), id and role, a document
\* with an article paragraph of MIN_BODY_LENGTH characters or more and a subtree
\* matching the rule, beside the paragraph or inside it, gives a body with the
\* article and without any text of the noise subtree, the text of content-tag
\* elements nested in the subtree included.
C18_NoiseImmunity ==
    body_out # None /\ doc.noise # 0 /\ ~under(doc.nodes, doc.article, doc.noise)
        => /\ Get(body_out) # None
           /\ \A t \in NoiseTexts(doc) : ~Contains(Get(Get(body_out)), t)

\* a div whose class is written in capitals, holding a list item long enough
\* to be a block, has been cut out of the tree in front of the article
C18_Witness ==
    /\ body_out = Some(Some(ArticleText))
    /\ doc.noise = 3 /\ doc.article = 7
    /\ lower(doc.nodes[3].class) \in NOISE_CLASSES /\ doc.nodes[3].class \notin NOISE_CLASSES
    /\ doc.nodes[6].tag \in CONTENT_TAGS /\ Len(doc.nodes[6].text) >= MIN_BLOCK_LENGTH
    /\ doc.nodes[3].parent = 2 /\ tree[3].parent = 0

\* C19: the text of an anchor, or of another inline element, inside a content
\* block stays in the block's text where it stood: the paragraph
\* prefix <a href="x">anchor</a> suffix gives exactly the block "prefix anchor
\* suffix", and neither markup nor the href is in the body.
C19_LinkText ==
    body_out # None /\ doc.link # 0
        => /\ Get(body_out) = Some(ArticleText \o <<"\n", "\n">> \o LinkBlockText)
           /\ ~Contains(Get(Get(body_out)), LinkHref)
           /\ ~Contains(Get(Get(body_out)), <<"<">>)

\* the paragraph of an anchor with an href, written over several lines, has
\* been extracted
C19_Witness ==
    /\ body_out # None /\ doc.link = 4
    /\ doc.nodes[5].tag = "a" /\ doc.nodes[5].href = LinkHref
    /\ doc.nodes[5].text = AnchorText
    /\ "\n" \in {doc.nodes[4].text[i] : i \in 1..Len(doc.nodes[4].text)}
    /\ Contains(Get(Get(body_out)), LinkBlockText)

\* the og:title contents with something in them, and what <title> and <h1> give
NonEmptyOg(nodes) == SelectSeq(og_contents(nodes), LAMBDA c : strip(c) # <<>>)
NonEmptyTitle(nodes) == SelectSeq(title_texts(nodes), LAMBDA c : strip(c) # <<>>)
NonEmptyH1(nodes) == SelectSeq(h1_texts(nodes), LAMBDA c : strip(c) # <<>>)

\* C20: when some og:title meta element of the document has content that is
\* not blank, extract_title returns that content, trimmed, whatever <title>
\* and <h1> hold; otherwise it takes <title>, then <h1>, and returns None when
\* none of them has text.
C20_TitlePriority ==
    title_out # None
        => LET t == Get(title_out)
               og == NonEmptyOg(doc.nodes)
               ti == NonEmptyTitle(doc.nodes)
               h1 == NonEmptyH1(doc.nodes)
           IN  IF og # <<>> THEN t = Some(strip(og[1]))
               ELSE IF ti # <<>> THEN t = Some(_clean_title_suffix(strip(ti[1])))
               ELSE IF h1 # <<>> THEN t # None /\ Contains(Get(t), strip(h1[1]))
               ELSE t = None

\* the kept blocks of a document of two paragraphs of a and b characters,
\* and the length of their join
KeptLengths(a, b) == SelectSeq(<<a, b>>, LAMBDA n : n >= MIN_BLOCK_LENGTH)
JoinedLength(a, b) ==
    LET kept == KeptLengths(a, b)
    IN  IF kept = <<>> THEN 0
        ELSE (IF Len(kept) = 2 THEN kept[1] + Len(Separator) + kept[2] ELSE kept[1])

\* C21: the body is the trimmed, whitespace-collapsed texts of the content-tag
\* elements, in document order, joined by two line feeds: a block of fewer than
\* MIN_BLOCK_LENGTH characters is dropped, one of exactly MIN_BLOCK_LENGTH is
\* kept, an element that is not a content tag gives no block, and a content
\* element inside a content element gives its own block after the block of the
\* outer one, which holds the inner text too.
C21_Blocks ==
    body_out # None
        => /\ \A t \in BlockTags, n \in BlockLengths :
                  doc = BlockDoc(t, n)
                      => Get(body_out) =
                           Some((IF t \in CONTENT_TAGS /\ n >= MIN_BLOCK_LENGTH
                                 THEN SpacedBlock(n) \o Separator ELSE <<>>) \o ArticleText)
           /\ \A o \in OuterTags, i \in InnerTags :
                  doc = NestedDoc(o, i)
                      => Get(body_out) =
                           Some(ArticleText \o Separator \o QuoteLead \o QuoteInner
                                \o Separator \o QuoteInner)

\* a list item of exactly MIN_BLOCK_LENGTH characters once collapsed, written
\* with more, stands in the body before the article
C21_Witness ==
    /\ doc = BlockDoc("li", MIN_BLOCK_LENGTH)
    /\ Len(doc.nodes[3].text) > MIN_BLOCK_LENGTH
    /\ body_out = Some(Some(SpacedBlock(MIN_BLOCK_LENGTH) \o Separator \o ArticleText))

\* C22: extract_text_content returns None exactly when the kept blocks joined
\* by the two-character separator come to fewer than MIN_BODY_LENGTH
\* characters; a join of exactly MIN_BODY_LENGTH characters is returned, and
\* whatever is returned has MIN_BODY_LENGTH characters or more.
C22_MinBody ==
    body_out # None
        => /\ Get(body_out) # None => Len(Get(Get(body_out))) >= MIN_BODY_LENGTH
           /\ \A q \in SizePairs :
                  doc = SizeDoc(q[1], q[2])
                      => /\ Get(body_out) = None <=> JoinedLength(q[1], q[2]) < MIN_BODY_LENGTH
                         /\ Get(body_out) # None
                                => Len(Get(Get(body_out))) = JoinedLength(q[1], q[2])

\* two paragraphs that come to exactly MIN_BODY_LENGTH characters only with
\* the separator between them have been returned
C22_Witness ==
    /\ \E q \in SizePairs : q[2] > 0 /\ q[1] + q[2] < MIN_BODY_LENGTH /\ doc = SizeDoc(q[1], q[2])
    /\ body_out # None
    /\ Get(body_out) # None
    /\ Len(Get(Get(body_out))) = MIN_BODY_LENGTH

\* a text with every run of white space made one space
SingleSpaced(s) ==
    LET keep == SelectSeq([i \in 1..Len(s) |-> i],
                          LAMBDA i : ~IsSpace(s[i]) \/ i = 1 \/ ~IsSpace(s[i - 1]))
    IN  [k \in 1..Len(keep) |-> IF IsSpace(s[keep[k]]) THEN " " ELSE s[keep[k]]]

\* C23 as stated: extracting the wrapped body gives a body, equal to the first
\* one once white space is made single spaces in both.
C23_AsStated ==
    body_again # None
        => /\ Get(body_again) # None
           /\ SingleSpaced(Get(Get(body_again))) = SingleSpaced(Get(Get(body_out)))

\* C23: extracting the wrapped body b gives None when b with its white space
\* made single spaces has fewer than MIN_BODY_LENGTH characters, and otherwise
\* a body equal to b once white space is made single spaces in both.
C23_Idempotent ==
    body_again # None
        => IF Len(SingleSpaced(Get(Get(body_out)))) < MIN_BODY_LENGTH
           THEN Get(body_again) = None
           ELSE /\ Get(body_again) # None
                /\ SingleSpaced(Get(Get(body_again))) = SingleSpaced(Get(Get(body_out)))

\* a body of several blocks has been wrapped and extracted again, and came
\* back as one block
C23_Witness ==
    /\ body_again # None
    /\ Get(body_again) # None
    /\ Contains(Get(Get(body_out)), Separator)
    /\ ~Contains(Get(Get(body_again)), Separator)

\* -------------------------------------------------------- result.py: actions
\* d = result.to_dict()
ToDict ==
    /\ dict_out = None
    /\ dict_out' = Some(to_dict(rec))
    /\ UNCHANGED <<made, rec, from_dict, json_out, from_json, set_out, passed>>
    /\ UNCHANGED <<vars, browser_vars, content_vars, consent, fetch_vars, page_vars, pool_vars>>

\* reconstructed = ExtractionResult(**d)
FromDict ==
    /\ dict_out # None
    /\ from_dict = None
    /\ from_dict' = Some(ExtractionResult(Get(dict_out)))
    /\ UNCHANGED <<made, rec, dict_out, json_out, from_json, set_out, passed>>
    /\ UNCHANGED <<vars, browser_vars, content_vars, consent, fetch_vars, page_vars, pool_vars>>

\* j = result.to_json()
ToJson ==
    /\ json_out = None
    /\ json_out' = Some(to_json(rec))
    /\ UNCHANGED <<made, rec, dict_out, from_dict, from_json, set_out, passed>>
    /\ UNCHANGED <<vars, browser_vars, content_vars, consent, fetch_vars, page_vars, pool_vars>>

\* parsed = json.loads(j); reconstructed = ExtractionResult(**parsed)
FromJson ==
    /\ json_out # None
    /\ from_json = None
    /\ from_json' = Some(ExtractionResult(loads(Get(json_out))))
    /\ UNCHANGED <<made, rec, dict_out, from_dict, json_out, set_out, passed>>
    /\ UNCHANGED <<vars, browser_vars, content_vars, consent, fetch_vars, page_vars, pool_vars>>

\* result.<name> = value
SetAttr ==
    /\ set_out = None
    /\ \E name \in Fields :
         \E value \in NewValues[name] :
           LET o == __setattr__(rec, name, value)
           IN  /\ rec' = o.res
               /\ set_out' = Some([name |-> name, exc |-> o.exc])
    /\ UNCHANGED <<made, dict_out, from_dict, json_out, from_json, passed>>
    /\ UNCHANGED <<vars, browser_vars, content_vars, consent, fetch_vars, page_vars, pool_vars>>

\* extract returning tier1_result: it succeeded, or max_tier < 2
ReturnTier1 ==
    /\ passed = None
    /\ \E mt \in MaxTiers :
         /\ after_tier1(rec, mt) = "return"
         /\ passed' = Some(rec)
    /\ UNCHANGED <<made, rec, dict_out, from_dict, json_out, from_json, set_out>>
    /\ UNCHANGED <<vars, browser_vars, content_vars, consent, fetch_vars, page_vars, pool_vars>>

NextResult == ToDict \/ FromDict \/ ToJson \/ FromJson \/ SetAttr \/ ReturnTier1

\* result = make_success(...) or make_failure(...)
InitResult ==
    /\ made \in Results
    /\ rec = made
    /\ dict_out = None
    /\ from_dict = None
    /\ json_out = None
    /\ from_json = None
    /\ set_out = None
    /\ passed = None
    /\ consent = NewConsent
    /\ tier_in = NoCall
    /\ tier_out = None
    /\ pg = NoPage
    /\ futures = <<>>
    /\ _work_queue = <<>>
    /\ doc = NoDoc
    /\ tree = <<>>
    /\ body_out = None
    /\ title_out = None
    /\ body_again = None
    /\ url \in Urls
    /\ max_tier = 1
    /\ pc = "tier1"
    /\ now = 0
    /\ overall_start = 0
    /\ ran = <<>>
    /\ tier1_result = None
    /\ tier2_result = None
    /\ tier3_result = None
    /\ tier4_result = None
    /\ returned = None
    /\ ops = [c \in Calls |-> NewOp]
    /\ _value = BrowserPermits
    /\ _waiters = <<>>

SpecResult == InitResult /\ [][NextResult]_<<vars, browser_vars, content_vars, result_vars, consent, fetch_vars, page_vars, pool_vars>>

\* C24: for every record, to_dict gives a mapping with exactly the nine fields,
\* each with the record's value (None for an absent optional), and
\* ExtractionResult(**to_dict()) is a record equal to it; the text to_json
\* gives, parsed and given to the constructor, is a record equal to it field by
\* field.
C24_RoundTrip ==
    /\ dict_out # None
           => /\ DOMAIN Get(dict_out) = Fields
              /\ \A k \in Fields : Get(dict_out)[k] = rec[k]
    /\ from_dict # None
           => /\ ~Get(from_dict).raise
              /\ \A k \in Fields : Get(from_dict).value[k] = rec[k]
    /\ from_json # None
           => /\ ~Get(from_json).raise
              /\ \A k \in Fields : Get(from_json).value[k] = rec[k]

\* a success whose body holds a backslash before a quote and has no title, and
\* whose url holds quotes, has gone through both round trips
C24_Witness ==
    /\ from_dict # None
    /\ from_json # None
    /\ rec.success
    /\ rec.title = None
    /\ rec.body = Some(<<"q", "\\", "\"">>)
    /\ rec.url = QueryUrl
    /\ Contains(Get(json_out), <<"\\", "\\", "\\", "\"">>)
    /\ Contains(Get(json_out), <<"\"", "t", "i", "t", "l", "e", "\"", ":", " ", "n", "u", "l", "l", ",">>)

\* C25: an assignment to a field of an ExtractionResult raises
\* FrozenInstanceError and leaves every field as the constructor set it, and
\* the result extract returns for a tier is the record the tier made.
C25_Frozen ==
    /\ rec = made
    /\ set_out # None => Get(set_out).exc = "FrozenInstanceError"
    /\ passed # None => Get(passed) = made

\* a success was assigned success = False, as in test_frozen_dataclass, and
\* then returned by extract
C25_Witness ==
    /\ set_out # None
    /\ Get(set_out).name = "success"
    /\ rec.success
    /\ passed = Some(made)

\* ------------------------------- fetch_playwright.py: cookie consent actions
IsVisible ==
    /\ consent.pc = "probe"
    /\ \E o \in ProbeEnds : consent' = is_visible(consent, o)
    /\ UNCHANGED <<vars, browser_vars, content_vars, result_vars, fetch_vars, page_vars, pool_vars>>

Click ==
    /\ consent.pc = "click"
    /\ \E o \in StepEnds : consent' = click(consent, o)
    /\ UNCHANGED <<vars, browser_vars, content_vars, result_vars, fetch_vars, page_vars, pool_vars>>

WaitIdle ==
    /\ consent.pc = "wait"
    /\ \E o \in StepEnds : consent' = wait_for_load_state(consent, o)
    /\ UNCHANGED <<vars, browser_vars, content_vars, result_vars, fetch_vars, page_vars, pool_vars>>

NextConsent == IsVisible \/ Click \/ WaitIdle

\* if js_enabled: await _dismiss_cookie_consent(page)
InitConsent ==
    /\ consent = NewConsent
    /\ tier_in = NoCall
    /\ tier_out = None
    /\ pg = NoPage
    /\ futures = <<>>
    /\ _work_queue = <<>>
    /\ made = NoResult
    /\ rec = NoResult
    /\ dict_out = None
    /\ from_dict = None
    /\ json_out = None
    /\ from_json = None
    /\ set_out = None
    /\ passed = None
    /\ doc = NoDoc
    /\ tree = <<>>
    /\ body_out = None
    /\ title_out = None
    /\ body_again = None
    /\ url \in Urls
    /\ max_tier = 4
    /\ pc = "tier4"
    /\ now = 0
    /\ overall_start = 0
    /\ ran = <<>>
    /\ tier1_result = None
    /\ tier2_result = None
    /\ tier3_result = None
    /\ tier4_result = None
    /\ returned = None
    /\ ops = [c \in Calls |-> NewOp]
    /\ _value = BrowserPermits
    /\ _waiters = <<>>

SpecConsent == InitConsent /\ [][NextConsent]_<<vars, browser_vars, content_vars, result_vars, consent, fetch_vars, page_vars, pool_vars>>

\* C26: at most one selector is clicked on a page, and once one has been
\* clicked no later selector is probed, however the wait for network idle
\* that follows the click ends.
C26_OneClick ==
    /\ Len(consent.clicked) <= 1
    /\ consent.clicked # <<>> => consent.probed[Len(consent.probed)] = consent.clicked[1]

\* C30: when tier 3 succeeded with a body holding a JS-required phrase, a call
\* with max_tier >= 4 has run tier 4 and returns tier 4's success or, if tier 4
\* failed, the synthesised failure, in which nothing of the tier 3 body is
\* left; a call with max_tier = 3 returns the tier 3 success as it is.
C30_JsEscalation ==
    (Done /\ tier3_result # None /\ T3.success /\ HasJsPhrase(Get(T3.body)))
        => IF max_tier >= 4
           THEN /\ tier4_result # None
                /\ T4.success => Ret = T4
                /\ ~T4.success
                       => /\ ~Ret.success
                          /\ Ret.body = None
                          /\ Ret.title = None
                          /\ Ret.content_length = 0
                          /\ Ret.error = Some("All tiers failed: " \o Get(T4.error))
           ELSE /\ max_tier = 3
                /\ tier4_result = None
                /\ Ret = T3

\* tier 3 succeeded on a page that asks for JavaScript, tier 4 then found the
\* body too short, and the call ended with the synthesised failure
C30_Witness ==
    /\ Done /\ max_tier >= 4
    /\ tier3_result # None /\ T3.success /\ HasJsPhrase(Get(T3.body))
    /\ tier4_result # None /\ T4.error = Some("Body too short")
    /\ Ret.error = Some("All tiers failed: Body too short")
    /\ Ret.body = None

\* ---------------------------------------------------- the fetchers, one call
\* from daz_web_extract.fetch_http import fetch_http; await fetch_http(url)
FetchHttp ==
    /\ tier_in.tier = 1
    /\ tier_out = None
    /\ tier_out' = Some(imported(FetchHttpImports,
                                 fetch_http(tier_in.url, 0, tier_in.d, tier_in.o)))
    /\ UNCHANGED <<tier_in, vars, browser_vars, content_vars, result_vars, consent, page_vars, pool_vars>>

\* from daz_web_extract.fetch_trafilatura import fetch_trafilatura;
\* await fetch_trafilatura(url)
FetchTrafilatura ==
    /\ tier_in.tier = 2
    /\ tier_out = None
    /\ tier_out' = Some(imported(FetchTrafilaturaImports,
                                 fetch_trafilatura(tier_in.url, 0, tier_in.d, tier_in.o)))
    /\ UNCHANGED <<tier_in, vars, browser_vars, content_vars, result_vars, consent, page_vars, pool_vars>>

\* from daz_web_extract.fetch_playwright import fetch_playwright_nojs;
\* await fetch_playwright_nojs(url)
FetchPlaywrightNojs ==
    /\ tier_in.tier = 3
    /\ tier_out = None
    /\ tier_out' = Some(imported(FetchPlaywrightImports,
                                 fetch_playwright_nojs(tier_in.url, 0, tier_in.d, tier_in.o)))
    /\ UNCHANGED <<tier_in, vars, browser_vars, content_vars, result_vars, consent, page_vars, pool_vars>>

\* from daz_web_extract.fetch_playwright import fetch_playwright;
\* await fetch_playwright(url)
FetchPlaywright ==
    /\ tier_in.tier = 4
    /\ tier_out = None
    /\ tier_out' = Some(imported(FetchPlaywrightImports,
                                 fetch_playwright(tier_in.url, 0, tier_in.d, tier_in.o)))
    /\ UNCHANGED <<tier_in, vars, browser_vars, content_vars, result_vars, consent, page_vars, pool_vars>>

NextFetch == FetchHttp \/ FetchTrafilatura \/ FetchPlaywrightNojs \/ FetchPlaywright

\* one call of one fetcher, with what the network, the library and the
\* browser do to it
InitFetch ==
    /\ \/ tier_in \in [tier : {1}, url : Urls, d : Durations, o : HttpOutcomes]
       \/ tier_in \in [tier : {2}, url : Urls, d : Durations, o : TrafOutcomes]
       \/ tier_in \in [tier : {3, 4}, url : Urls, d : Durations, o : PageOutcomes]
    /\ tier_out = None
    /\ pg = NoPage
    /\ futures = <<>>
    /\ _work_queue = <<>>
    /\ consent = NewConsent
    /\ made = NoResult
    /\ rec = NoResult
    /\ dict_out = None
    /\ from_dict = None
    /\ json_out = None
    /\ from_json = None
    /\ set_out = None
    /\ passed = None
    /\ doc = NoDoc
    /\ tree = <<>>
    /\ body_out = None
    /\ title_out = None
    /\ body_again = None
    /\ url \in Urls
    /\ max_tier = 1
    /\ pc = "tier1"
    /\ now = 0
    /\ overall_start = 0
    /\ ran = <<>>
    /\ tier1_result = None
    /\ tier2_result = None
    /\ tier3_result = None
    /\ tier4_result = None
    /\ returned = None
    /\ ops = [c \in Calls |-> NewOp]
    /\ _value = BrowserPermits
    /\ _waiters = <<>>

SpecFetch ==
    InitFetch /\ [][NextFetch]_<<vars, browser_vars, content_vars, result_vars, consent, fetch_vars, page_vars, pool_vars>>

\* the input and the end of the fetcher call looked at
In == tier_in.o
Out == Get(tier_out)
LongEnough(b) == b # None /\ Len(Get(b)) >= 100

\* C27: a tier 1 call ends with a result that follows the rules in this order:
\* no response gives a failure without status; a status of 400 or more gives
\* the failure "HTTP <status>" with that status whatever the content type; a
\* content type without html, in any case, gives a failure with the status;
\* otherwise the tier succeeds exactly when the extracted body has 100
\* characters or more, and else fails with "Body too short" and the status.
C27_Tier1Rules ==
    (tier_in.tier = 1 /\ tier_out # None)
        => /\ ~Out.raise
           /\ IF In.kind = "exception"
              THEN ~Out.value.success /\ Out.value.status_code = None
              ELSE IF In.status >= 400
              THEN /\ ~Out.value.success
                   /\ Out.value.error = Some("HTTP " \o ToString(In.status))
                   /\ Out.value.status_code = Some(In.status)
              ELSE IF ~Contains(lower(In.content_type), <<"h", "t", "m", "l">>)
              THEN ~Out.value.success /\ Out.value.status_code = Some(In.status)
              ELSE /\ Out.value.success <=> LongEnough(In.body)
                   /\ Out.value.success => Out.value.body = In.body
                   /\ ~Out.value.success
                          => /\ Out.value.error = Some("Body too short")
                             /\ Out.value.status_code = Some(In.status)

\* the rules of C28 without one for a call that raises
C28_AsStated ==
    (tier_in.tier = 2 /\ tier_out # None)
        => /\ ~Out.raise
           /\ Out.value.status_code = None
           /\ IF In.kind = "timeout"
              THEN ~Out.value.success /\ Out.value.error = Some("Trafilatura timeout")
              ELSE IF ~In.downloaded \/ ~LongEnough(In.extracted)
              THEN /\ ~Out.value.success
                   /\ Out.value.error = Some("Body too short or extraction failed")
              ELSE /\ Out.value.success
                   /\ Out.value.body = In.extracted
                   /\ Out.value.title = In.title

\* C28: a tier 2 call whose deadline expires ends with the failure
\* "Trafilatura timeout"; one in which the worker raises ends with the failure
\* "<class>: <message>"; one in which the library returned no HTML, or no body,
\* or a body of fewer than 100 characters ends with the failure "Body too short
\* or extraction failed"; any other ends with a success whose title is the one
\* of the library's metadata; status_code is None in all of them.
C28_Tier2Rules ==
    (tier_in.tier = 2 /\ tier_out # None)
        => /\ ~Out.raise
           /\ Out.value.status_code = None
           /\ IF In.kind = "timeout"
              THEN ~Out.value.success /\ Out.value.error = Some("Trafilatura timeout")
              ELSE IF In.kind = "exception"
              THEN ~Out.value.success /\ Out.value.error = Some(In.exc \o ": " \o In.msg)
              ELSE IF ~In.downloaded \/ ~LongEnough(In.extracted)
              THEN /\ ~Out.value.success
                   /\ Out.value.error = Some("Body too short or extraction failed")
              ELSE /\ Out.value.success
                   /\ Out.value.body = In.extracted
                   /\ Out.value.title = In.title

\* the library downloaded a page with a title and a body of exactly 100
\* characters in time, and tier 2 succeeded with both
C28_Witness ==
    /\ tier_in.tier = 2 /\ tier_out # None
    /\ In.kind = "returned" /\ In.downloaded
    /\ In.extracted = Some(ExactBody) /\ In.title # None
    /\ Out.value.success /\ Out.value.title = In.title /\ Out.value.status_code = None

\* C29: on a page a browser tier got without an error status, the library's
\* extraction is taken when it has 100 characters or more, whatever the
\* in-house extractor would give; else the in-house extraction is taken when
\* it has 100 characters or more; the tier fails with "Body too short" exactly
\* when neither has, and a success has the title extract_title gives for the
\* rendered HTML.
C29_Hybrid ==
    (tier_in.tier \in {3, 4} /\ tier_out # None /\ In.kind = "page"
     /\ (In.status = None \/ Get(In.status) < 400))
        => /\ ~Out.raise
           /\ ~Out.value.success <=> (~LongEnough(In.traf) /\ ~LongEnough(In.lxml))
           /\ ~Out.value.success => Out.value.error = Some("Body too short")
           /\ LongEnough(In.traf) => Out.value.body = In.traf
           /\ (~LongEnough(In.traf) /\ LongEnough(In.lxml)) => Out.value.body = In.lxml
           /\ Out.value.success => Out.value.title = In.title

\* the library gave a body that is too short, the in-house extractor one that
\* is long enough, and the tier succeeded with the second
C29_Witness ==
    /\ tier_in.tier = 4 /\ tier_out # None /\ In.kind = "page"
    /\ In.traf = Some(ShortBody) /\ LongEnough(In.lxml)
    /\ Out.value.success /\ Out.value.body = In.lxml /\ Out.value.title = In.title

\* the trimmed, non-blank text nodes under the first h1 of a document, joined
\* by single spaces
FirstH1Title(nodes) ==
    LET h1s == SelectSeq(xpath_all(nodes), LAMBDA i : nodes[i].tag = "h1")
        texts == IF h1s = <<>> THEN <<>> ELSE descendant_texts(nodes, h1s[1])
        kept == SelectSeq(texts, LAMBDA t : strip(t) # <<>>)
    IN  join(<<" ">>, [k \in 1..Len(kept) |-> strip(kept[k])])

\* C33: in a document without an og:title and without a <title> that has
\* text, extract_title returns the text nodes under the first h1, trimmed and
\* joined by single spaces, and nothing of a later h1.
C33_FirstH1 ==
    (title_out # None /\ NonEmptyOg(doc.nodes) = <<>> /\ NonEmptyTitle(doc.nodes) = <<>>
     /\ FirstH1Title(doc.nodes) # <<>>)
        => Get(title_out) = Some(FirstH1Title(doc.nodes))

\* C34: when a noise element stands inside the article paragraph, the body
\* holds the paragraph's text before the element and the text that follows
\* the element inside the paragraph, and nothing from inside the element.
C34_TextAfterNoise ==
    (body_out # None /\ doc.noise # 0 /\ doc.article # 0
     /\ doc.nodes[doc.noise].parent = doc.article)
        => /\ Get(body_out) # None
           /\ Contains(Get(Get(body_out)), ArticleText)
           /\ Contains(Get(Get(body_out)), SingleSpaced(strip(doc.nodes[doc.noise].tail)))
           /\ \A t \in NoiseTexts(doc) \ {SingleSpaced(strip(doc.nodes[doc.noise].tail))} :
                  ~Contains(Get(Get(body_out)), t)

\* the nearest max_tier in 1..4
Nearest(mt) == IF mt < 1 THEN 1 ELSE IF mt > 4 THEN 4 ELSE mt

\* what a call with max_tier = mt does after the tiers' results of this call:
\* the tiers it runs, and what it returns (None where it would need the result
\* of a tier this call did not run)
RunWith(mt) ==
    LET from3 == IF tier3_result = None THEN [ran |-> <<3>>, ret |-> None]
                 ELSE IF after_tier3(T3, mt) = "return"
                 THEN [ran |-> <<3>>, ret |-> tier3_result]
                 ELSE IF tier4_result = None THEN [ran |-> <<3, 4>>, ret |-> None]
                 ELSE [ran |-> <<3, 4>>, ret |-> Some(after_tier4(url, T4, overall_start, now))]
        from2 == IF tier2_result = None THEN [ran |-> <<2>>, ret |-> None]
                 ELSE IF after_tier2(T2, mt) = "return"
                 THEN [ran |-> <<2>>, ret |-> tier2_result]
                 ELSE [ran |-> <<2>> \o from3.ran, ret |-> from3.ret]
        next == after_tier1(T1, mt)
    IN  IF next = "return" THEN [ran |-> <<1>>, ret |-> tier1_result]
        ELSE IF next = "tier3" THEN [ran |-> <<1>> \o from3.ran, ret |-> from3.ret]
        ELSE [ran |-> <<1>> \o from2.ran, ret |-> from2.ret]

\* C38: a call that has ended ran the tiers, and returned the result, that a
\* call with the nearest max_tier in 1..4 runs and returns on the same tier
\* outcomes: max_tier above 4 is as 4, max_tier below 1 is as 1.
C38_NearestMaxTier ==
    Done => /\ ran = RunWith(Nearest(max_tier)).ran
            /\ returned = RunWith(Nearest(max_tier)).ret

\* a call with max_tier = 0 stopped after a failed tier 1, and a call with
\* max_tier = 5 went through all four tiers to the synthesised failure
C38_Witness ==
    /\ Done
    /\ \/ max_tier = 0 /\ ran = <<1>> /\ ~Ret.success
       \/ max_tier = 5 /\ ran = <<1, 2, 3, 4>> /\ ~Ret.success

\* --------------------------------- fetch_playwright.py: one page, its steps
PageGoto ==
    /\ pg.pc = "goto"
    /\ \E o \in GotoEnds : pg' = goto(pg, url, o)
    /\ UNCHANGED <<vars, browser_vars, content_vars, result_vars, consent, fetch_vars, pool_vars>>

PageNetworkIdle ==
    /\ pg.pc = "networkidle"
    /\ \E o \in StepEnds : pg' = networkidle(pg, url, o)
    /\ UNCHANGED <<vars, browser_vars, content_vars, result_vars, consent, fetch_vars, pool_vars>>

\* one await of _dismiss_cookie_consent, and its return when it was the last
PageDismiss ==
    /\ pg.pc = "dismiss"
    /\ \/ consent.pc = "probe" /\ \E o \in ProbeEnds : consent' = is_visible(consent, o)
       \/ consent.pc = "click" /\ \E o \in StepEnds : consent' = click(consent, o)
       \/ consent.pc = "wait"
          /\ \E o \in StepEnds : consent' = wait_for_load_state(consent, o)
    /\ pg' = dismissed(pg, consent')
    /\ UNCHANGED <<vars, browser_vars, content_vars, result_vars, fetch_vars, pool_vars>>

PageContent ==
    /\ pg.pc = "content"
    /\ \E o \in ContentEnds : pg' = content(pg, url, o)
    /\ UNCHANGED <<vars, browser_vars, content_vars, result_vars, consent, fetch_vars, pool_vars>>

PageCtxClose ==
    /\ pg.pc = "ctx_close"
    /\ \E o \in StepEnds : pg' = close(pg, o, "browser_close")
    /\ UNCHANGED <<vars, browser_vars, content_vars, result_vars, consent, fetch_vars, pool_vars>>

\* browser.close(), then the return to fetch_playwright or fetch_playwright_nojs
PageBrowserClose ==
    /\ pg.pc = "browser_close"
    /\ \E o \in StepEnds : pg' = tier_return(close(pg, o, "browser_close"), url)
    /\ UNCHANGED <<vars, browser_vars, content_vars, result_vars, consent, fetch_vars, pool_vars>>

NextPage ==
    PageGoto \/ PageNetworkIdle \/ PageDismiss \/ PageContent \/ PageCtxClose
    \/ PageBrowserClose

\* page = await ctx.new_page(), in either mode
InitPage ==
    /\ consent = NewConsent
    /\ tier_in = NoCall
    /\ tier_out = None
    /\ \E js \in BOOLEAN : pg = NewPage(js)
    /\ futures = <<>>
    /\ _work_queue = <<>>
    /\ made = NoResult
    /\ rec = NoResult
    /\ dict_out = None
    /\ from_dict = None
    /\ json_out = None
    /\ from_json = None
    /\ set_out = None
    /\ passed = None
    /\ doc = NoDoc
    /\ tree = <<>>
    /\ body_out = None
    /\ title_out = None
    /\ body_again = None
    /\ url \in Urls
    /\ max_tier = 4
    /\ pc = "tier4"
    /\ now = 0
    /\ overall_start = 0
    /\ ran = <<>>
    /\ tier1_result = None
    /\ tier2_result = None
    /\ tier3_result = None
    /\ tier4_result = None
    /\ returned = None
    /\ ops = [c \in Calls |-> NewOp]
    /\ _value = BrowserPermits
    /\ _waiters = <<>>

SpecPage == InitPage /\ [][NextPage]_<<vars, browser_vars, content_vars, result_vars, consent, fetch_vars, page_vars, pool_vars>>

\* the page has done e
Did(e) == \E i \in 1..Len(pg.did) : pg.did[i] = e

\* navigation was answered with an error status
ErrorStatus == pg.status_code # None /\ Get(pg.status_code) >= 400

\* C31: a page without JavaScript never waits for network idle and never
\* calls the cookie-consent dismissal, of which no selector is ever probed;
\* a page that did either is a JavaScript page, and page.goto had returned,
\* the document DOM-ready, before it did.
C31_BestEffortOnlyJs ==
    /\ ~pg.js_enabled => /\ ~Did("networkidle") /\ ~Did("dismiss")
                         /\ consent = NewConsent
    /\ (Did("networkidle") \/ Did("dismiss") \/ consent # NewConsent)
           => /\ pg.js_enabled
              /\ pg.did[1] = "goto"
    /\ pg.pc \in {"networkidle", "dismiss"} => pg.js_enabled /\ Did("goto")

\* a page without JavaScript went from navigation straight to page.content()
\* and the extraction, and its tier returned a success
C31_Witness ==
    /\ ~pg.js_enabled
    /\ pg.pc = "returned"
    /\ pg.did = <<"goto", "content", "extract">>
    /\ pg.out # None /\ Get(pg.out).success

\* C32: an exception of the wait for network idle, of a visibility probe, of
\* a click or of the wait after a click never ends the page: unless the
\* task is cancelled, a JavaScript page that waited for network idle goes on
\* to the status check and the dismissal, the dismissal returns normally, and
\* page.content() is what the page awaits next.
C32_BestEffortSwallowed ==
    /\ (Did("networkidle") /\ ~ErrorStatus /\ ~pg.cancelled) => Did("dismiss")
    /\ (Did("dismiss") /\ pg.pc = "dismiss") => consent.pc \in {"probe", "click", "wait"}
    /\ (Did("dismiss") /\ pg.pc # "dismiss" /\ ~pg.cancelled)
           => /\ consent.pc = "done"
              /\ pg.pc = "content" \/ Did("content")
    /\ consent.pc = "cancelled" => pg.cancelled
    /\ pg.swallowed => Did("networkidle") /\ pg.pc # "networkidle"

\* the wait for network idle raised, a click was followed by a wait that
\* raised too (a second selector was clicked after it), and the tier still
\* returned a success
C32_Witness ==
    /\ pg.swallowed
    /\ Len(consent.clicked) >= 2
    /\ pg.pc = "returned"
    /\ pg.did = <<"goto", "networkidle", "dismiss", "content", "extract">>
    /\ pg.out # None /\ Get(pg.out).success

Body(c) ==
    /\ Op(c).pc = "launch"
    /\ \E op \in held_body(Op(c)) : ops' = [ops EXCEPT ![c] = op]
    /\ UNCHANGED <<_value, _waiters, vars, content_vars, result_vars, consent, fetch_vars, page_vars, pool_vars>>

\* a call enters fetch_playwright only after its fetch_playwright_nojs returned
Enter(c) ==
    /\ js_enabled_of(c) => tier4_may_start(Op(c - 1))
    /\ Acquire(c)

NextCalls ==
    \E c \in Operations :
        Enter(c) \/ Wake(c) \/ CancelAcquire(c) \/ Body(c) \/ Release(c)

InitCalls ==
    /\ url \in Urls
    /\ max_tier = 4
    /\ pc = "tier1"
    /\ now = 0
    /\ overall_start = 0
    /\ ran = <<>>
    /\ tier1_result = None
    /\ tier2_result = None
    /\ tier3_result = None
    /\ tier4_result = None
    /\ returned = None
    /\ ops = [c \in Operations |-> NewOp]
    /\ _value = BrowserPermits
    /\ _waiters = <<>>
    /\ doc = NoDoc
    /\ tree = <<>>
    /\ body_out = None
    /\ title_out = None
    /\ body_again = None
    /\ made = NoResult
    /\ rec = NoResult
    /\ dict_out = None
    /\ from_dict = None
    /\ json_out = None
    /\ from_json = None
    /\ set_out = None
    /\ passed = None
    /\ consent = NewConsent
    /\ tier_in = NoCall
    /\ tier_out = None
    /\ pg = NoPage
    /\ futures = <<>>
    /\ _work_queue = <<>>

SpecCalls == InitCalls /\ [][NextCalls]_<<vars, browser_vars, content_vars, result_vars, consent, fetch_vars, page_vars, pool_vars>>

HoldingOps == {c \in Operations : Op(c).held}

\* C37: of the two browser operations of one extract call at most one holds
\* a permit: tier 4 is not entered, and so queues for no permit, before tier
\* 3 has released its own; and the pool never blocks: while an operation
\* queues, a permit is free for the first in the queue or an operation
\* holding one can take its next step.
C37_OnePermitPerCall ==
    /\ \A k \in ExtractCalls :
         /\ ~(Op(tier3_op(k)).held /\ Op(tier4_op(k)).held)
         /\ Op(tier4_op(k)).pc # "idle"
                => /\ Op(tier3_op(k)).pc = "done"
                   /\ ~Op(tier3_op(k)).held
    /\ Cardinality(HoldingOps) + _value = BrowserPermits
    /\ _waiters # <<>>
           => \/ _value > 0 /\ ENABLED Wake(Head(_waiters))
              \/ \E c \in HoldingOps : ENABLED (Body(c) \/ Release(c))

\* a call whose tier 3 has ended queues for its tier 4 permit while the other
\* calls hold all the permits
C37_Witness ==
    \E k \in ExtractCalls :
        /\ Op(tier3_op(k)).pc = "done"
        /\ Op(tier4_op(k)).pc = "acquire"
        /\ _value = 0
        /\ Cardinality(HoldingOps) = BrowserPermits
        /\ \E c \in HoldingOps : js_enabled_of(c)
        /\ \E c \in HoldingOps : ~js_enabled_of(c)

\* ------------------------------------- the permit pool, with its scheduling
all_vars == <<vars, browser_vars, content_vars, result_vars, consent, fetch_vars, page_vars, pool_vars>>

\* the event loop runs the waiter a release has woken, and every await inside
\* the async with ends: playwright's calls have their timeouts
Fairness ==
    \A c \in Calls :
        /\ WF_all_vars(Wake(c))
        /\ WF_all_vars(Launch(c) \/ NewContext(c) \/ Page(c) \/ CtxClose(c)
                       \/ BrowserClose(c) \/ Release(c))

SpecBrowserFair == SpecBrowser /\ Fairness

\* C36: with more concurrent calls than permits, every browser operation
\* queueing for a permit comes to hold one, unless its task is cancelled in
\* the queue; every call that entered a browser tier comes to its end, a
\* result returned or the cancellation passed on; and the permits held and
\* the free permits are BrowserPermits at all times, all free once every
\* call has ended.
C36_Liveness ==
    /\ \A c \in Calls : (Op(c).pc = "acquire") ~> (Op(c).held \/ Op(c).cancelled)
    /\ \A c \in Calls : (Op(c).pc # "idle") ~> (Op(c).pc = "done")
    /\ [](/\ Cardinality(Holding) + _value = BrowserPermits
          /\ (\A c \in Calls : Op(c).pc = "done") => _value = BrowserPermits)

\* a permit has come back and is free for the call at the head of the queue
C36_Witness ==
    /\ _waiters # <<>>
    /\ Op(Head(_waiters)).pc = "acquire"
    /\ _value > 0
    /\ \E d \in Calls : Op(d).pc = "done" /\ Op(d).pending = "return"

\* ------------------------------------ concurrent calls of fetch_trafilatura
\* loop.run_in_executor(_executor, _download_and_extract, url) inside wait_for
Submit(c) ==
    /\ futures[c].caller = "idle"
    /\ IF c = 1 THEN TRUE ELSE futures[c - 1].caller # "idle"
    /\ futures' = [futures EXCEPT ![c].caller = "waiting", ![c].job = "queued"]
    /\ _work_queue' = Append(_work_queue, c)
    /\ UNCHANGED <<vars, browser_vars, content_vars, result_vars, consent, fetch_vars, page_vars>>

\* a worker thread takes the oldest work item and runs it, unless its future
\* was cancelled meanwhile
Take(c) ==
    /\ _work_queue # <<>> /\ Head(_work_queue) = c
    /\ worker_free(futures)
    /\ _work_queue' = Tail(_work_queue)
    /\ futures' = [futures EXCEPT ![c].job = IF @ = "queued" THEN "running" ELSE @]
    /\ UNCHANGED <<vars, browser_vars, content_vars, result_vars, consent, fetch_vars, page_vars>>

\* _download_and_extract returns or raises in its thread; a caller still
\* waiting gets the outcome. The timer of wait_for goes first at its deadline.
Finish(c) ==
    /\ futures[c].job = "running"
    /\ futures[c].caller = "waiting" => ~expired(futures[c])
    /\ \E kind \in {"returned", "exception"} :
         futures' = [futures EXCEPT
                       ![c] = IF @.caller = "waiting"
                              THEN [returns(@, url, kind) EXCEPT !.job = "done"]
                              ELSE [@ EXCEPT !.job = "done"]]
    /\ UNCHANGED _work_queue
    /\ UNCHANGED <<vars, browser_vars, content_vars, result_vars, consent, fetch_vars, page_vars>>

\* time passes for every caller inside wait_for
Tick ==
    /\ \E c \in PoolCalls : futures[c].caller = "waiting"
    /\ \A c \in PoolCalls : futures[c].caller = "waiting" => ~expired(futures[c])
    /\ futures' = [c \in PoolCalls |->
                     IF futures[c].caller = "waiting"
                     THEN [futures[c] EXCEPT !.age = @ + 1] ELSE futures[c]]
    /\ UNCHANGED _work_queue
    /\ UNCHANGED <<vars, browser_vars, content_vars, result_vars, consent, fetch_vars, page_vars>>

\* the timeout of wait_for fires: except asyncio.TimeoutError
Timeout(c) ==
    /\ futures[c].caller = "waiting"
    /\ expired(futures[c])
    /\ futures' = [futures EXCEPT ![c] = returns(cancel_future(@), url, "timeout")]
    /\ UNCHANGED _work_queue
    /\ UNCHANGED <<vars, browser_vars, content_vars, result_vars, consent, fetch_vars, page_vars>>

\* the caller's task is cancelled inside wait_for
CancelCaller(c) ==
    /\ futures[c].caller = "waiting"
    /\ futures' = [futures EXCEPT
                      ![c] = [cancel_future(@) EXCEPT !.caller = "cancelled", !.age = 0]]
    /\ UNCHANGED _work_queue
    /\ UNCHANGED <<vars, browser_vars, content_vars, result_vars, consent, fetch_vars, page_vars>>

NextPool ==
    \/ \E c \in PoolCalls :
           Submit(c) \/ Take(c) \/ Finish(c) \/ Timeout(c) \/ CancelCaller(c)
    \/ Tick

InitPool ==
    /\ url \in Urls
    /\ max_tier = 2
    /\ pc = "tier1"
    /\ now = 0
    /\ overall_start = 0
    /\ ran = <<>>
    /\ tier1_result = None
    /\ tier2_result = None
    /\ tier3_result = None
    /\ tier4_result = None
    /\ returned = None
    /\ ops = [c \in Calls |-> NewOp]
    /\ _value = BrowserPermits
    /\ _waiters = <<>>
    /\ doc = NoDoc
    /\ tree = <<>>
    /\ body_out = None
    /\ title_out = None
    /\ body_again = None
    /\ made = NoResult
    /\ rec = NoResult
    /\ dict_out = None
    /\ from_dict = None
    /\ json_out = None
    /\ from_json = None
    /\ set_out = None
    /\ passed = None
    /\ consent = NewConsent
    /\ tier_in = NoCall
    /\ tier_out = None
    /\ pg = NoPage
    /\ futures = [c \in PoolCalls |-> NewFuture]
    /\ _work_queue = <<>>

SpecPool == InitPool /\ [][NextPool]_<<vars, browser_vars, content_vars, result_vars, consent, fetch_vars, page_vars, pool_vars>>

TimedOut(c) ==
    /\ futures[c].out # None
    /\ Get(futures[c].out).error = Some("Trafilatura timeout")

\* C35: no more than max_workers jobs run at a time whatever the number of
\* calls; a job waits in the queue only while every worker is busy or until a
\* worker takes it; a caller is never inside wait_for past TIMEOUT_SECONDS
\* from submission, and a call whose deadline ran out, its job queued or
\* running, returned the failure "Trafilatura timeout" with status_code null.
C35_WorkerPool ==
    /\ Cardinality(running(futures)) <= max_workers
    /\ \A i \in 1..Len(_work_queue) :
         futures[_work_queue[i]].job \in {"queued", "cancelled"}
    /\ \A c \in PoolCalls : futures[c].job = "queued" => \E i \in 1..Len(_work_queue) : _work_queue[i] = c
    /\ (_work_queue # <<>> /\ Cardinality(running(futures)) < max_workers)
           => ENABLED Take(Head(_work_queue))
    /\ \A c \in PoolCalls :
         /\ futures[c].caller = "waiting"
                => futures[c].age * TickSeconds < TIMEOUT_SECONDS + TickSeconds
         /\ (futures[c].caller = "done" /\ expired(futures[c]))
                => /\ TimedOut(c)
                   /\ ~Get(futures[c].out).success
                   /\ Get(futures[c].out).status_code = None
                   /\ Get(futures[c].out).fetch_method = Some("trafilatura")
                   /\ Get(futures[c].out).elapsed_ms >= TIMEOUT_SECONDS * 1000
         /\ TimedOut(c) => expired(futures[c]) /\ futures[c].job # "queued"

\* every worker is busy, one of the running jobs belongs to a caller that
\* timed out, and the job of another caller that timed out never left the queue
C35_Witness ==
    /\ Cardinality(running(futures)) = max_workers
    /\ \E c \in running(futures) : TimedOut(c)
    /\ \E c \in PoolCalls : TimedOut(c) /\ futures[c].job = "cancelled"
                            /\ \E i \in 1..Len(_work_queue) : _work_queue[i] = c

====
